---- MODULE Spec2Model ----
(***************************************************************************)
(* Calendar Assistant: the conversation session (CalendarAssistantChat),   *)
(* the reasoning loop it drives (the AgentExecutor built by                *)
(* create_calendar_agent) and the six tool handlers of agent/tools.py.     *)
(*                                                                         *)
(* Texts are tuples of string pieces (an f-string is the tuple of its      *)
(* literal and interpolated parts), so that two texts are equal exactly    *)
(* when the strings they stand for are equal.                              *)
(***************************************************************************)
EXTENDS Integers, Sequences, FiniteSets, TLC

VARIABLES
    chat_history,        \* CalendarAssistantChat.chat_history: list of (input, output)
    turns,               \* number of messages submitted to the session so far
    pc,                  \* position of the running turn, "idle" between calls
    user_input,          \* argument of the running chat() call
    langchain_history,   \* the chat_history messages handed to the loop
    intermediate_steps,  \* the loop's scratchpad for this run
    iterations,          \* the loop's iteration counter
    time_elapsed,        \* elapsed time as last measured by the loop
    now,                 \* wall-clock time since the run started
    completion,          \* raw text of the last model completion
    parsed,              \* the parser's classification of that completion
    llm_calls,           \* model calls issued in this run
    llm_last_at,         \* wall-clock time at which the last model call began
    dispatched,          \* handler executions of this run, in order
    exc,                 \* the exception the loop raised, if any
    ret,                 \* value returned by the last chat() call
    escaped,             \* TRUE once an exception reached the caller of chat()
    backend,             \* the calendar backend's events
    deviations,          \* non-nominal environment steps used so far
    last_op,             \* the last call completed on the session
    snapshot,            \* the list a caller holds from get_history()
    threads,             \* app.py: the handler call each user has in progress
    chatbot,             \* app.py: each user's gr.Chatbot value
    handled,             \* the (turn, tool, input) triples the loop has dispatched so far
    catalogue            \* the text get_tool_descriptions() returned last

vars == <<chat_history, turns, pc, user_input, langchain_history,
          intermediate_steps, iterations, time_elapsed, now, completion,
          parsed, llm_calls, llm_last_at, dispatched, exc, ret, escaped,
          backend, deviations, last_op, snapshot, threads, chatbot, handled,
          catalogue>>

(***************************************************************************)
(* Bounds of the explored environment.                                     *)
(***************************************************************************)
\* events the backend issues ids for
MaxEvents == 2
\* changes a caller makes to one list it got from get_history()
MaxEdits == 1
\* chat() calls per session
MaxTurns == 3
\* chat() calls of one session that are followed step by step
MaxMessages == 2
\* environment steps of one run that leave the nominal path: a completion
\* other than the nominal action that extends the scratchpad, a slow call,
\* a failing backend request
MaxDeviations == 1
\* latency, in seconds, of a slow model or backend call
SlowLatency == 100

Txt(s) == <<s>>

None == <<>>

(***************************************************************************)
(* Configuration of the executor, create_calendar_agent.                   *)
(***************************************************************************)
\* parsing errors left unhandled
handle_parsing_errors_off == FALSE

handle_parsing_errors == TRUE

\* an iteration ceiling one too high
max_iterations_11 == 10 + 1

max_iterations == 10

\* a time ceiling an order of magnitude too high
max_execution_time_900 == 90 * 10

max_execution_time == 90

\* the other early-stopping method
early_stopping_generate == "generate"

early_stopping_method == "force"

\* chat(): self.chat_history[-5:]
\* a window one pair too short
HistoryWindow_short == 5 - 1

HistoryWindow == 5

(***************************************************************************)
(* Tool registry, create_calendar_tools: (name, func) in registration      *)
(* order.                                                                  *)
(***************************************************************************)
N_create == Txt("create_event")
N_delete == Txt("delete_event")
N_check  == Txt("check_availability")
N_report == Txt("get_daily_report")
N_list   == Txt("list_upcoming_events")
N_update == Txt("update_event")

\* the registry with update_event left out
create_calendar_tools_five ==
    << [name |-> N_create, func |-> "create_event_tool"],
       [name |-> N_delete, func |-> "delete_event_tool"],
       [name |-> N_check,  func |-> "check_availability_tool"],
       [name |-> N_report, func |-> "daily_report_tool"],
       [name |-> N_list,   func |-> "upcoming_events_tool"] >>

\* the registry with delete_event left out
create_calendar_tools_no_delete ==
    << [name |-> N_create, func |-> "create_event_tool"],
       [name |-> N_check,  func |-> "check_availability_tool"],
       [name |-> N_report, func |-> "daily_report_tool"],
       [name |-> N_list,   func |-> "upcoming_events_tool"],
       [name |-> N_update, func |-> "update_event_tool"] >>

\* the registry with a stale seventh entry
create_calendar_tools_stale ==
    << [name |-> N_create, func |-> "create_event_tool"],
       [name |-> N_delete, func |-> "delete_event_tool"],
       [name |-> N_check,  func |-> "check_availability_tool"],
       [name |-> N_report, func |-> "daily_report_tool"],
       [name |-> N_list,   func |-> "upcoming_events_tool"],
       [name |-> N_update, func |-> "update_event_tool"],
       [name |-> Txt("foo_event"), func |-> "upcoming_events_tool"] >>

create_calendar_tools ==
    << [name |-> N_create, func |-> "create_event_tool"],
       [name |-> N_delete, func |-> "delete_event_tool"],
       [name |-> N_check,  func |-> "check_availability_tool"],
       [name |-> N_report, func |-> "daily_report_tool"],
       [name |-> N_list,   func |-> "upcoming_events_tool"],
       [name |-> N_update, func |-> "update_event_tool"] >>

\* the catalogue as it was before update_event was added
descriptions_five ==
    << <<"Available Calendar Tools:">>,
       <<>>,
       <<"1. ", "create_event", " - Create new calendar events with title, time, location">>,
       <<"2. ", "delete_event", " - Delete events by ID (get ID from ",
         "list_upcoming_events", " first)">>,
       <<"3. ", "check_availability", " - Check if a time slot is free">>,
       <<"4. ", "get_daily_report", " - Get all events for a specific date">>,
       <<"5. ", "list_upcoming_events", " - List next N upcoming events with IDs">>,
       <<>>,
       <<"CRITICAL RULES:">>,
       <<"- Always use ISO format for dates: YYYY-MM-DDTHH:MM:SS">>,
       <<"- NEVER guess or make up event IDs - always get them from tools first">>,
       <<"- Use ", "check_availability",
         " before creating or moving events to avoid conflicts">> >>

\* get_tool_descriptions: the lines of the catalogue, a tool name being a
\* piece of its own wherever the text has one
descriptions ==
    << <<"Available Calendar Tools:">>,
       <<>>,
       <<"1. ", "create_event", " - Create new calendar events with title, time, location">>,
       <<"2. ", "delete_event", " - Delete events by ID (get ID from ",
         "list_upcoming_events", " first)">>,
       <<"3. ", "check_availability", " - Check if a time slot is free">>,
       <<"4. ", "get_daily_report", " - Get all events for a specific date">>,
       <<"5. ", "list_upcoming_events", " - List next N upcoming events with IDs">>,
       <<"6. ", "update_event", " - Update an existing event by its ID">>,
       <<>>,
       <<"CRITICAL RULES:">>,
       <<"- Always use ISO format for dates: YYYY-MM-DDTHH:MM:SS">>,
       <<"- NEVER guess or make up event IDs - always get them from tools first">>,
       <<"- Use ", "check_availability",
         " before creating or moving events to avoid conflicts">> >>

\* "\n".join(lines)
RECURSIVE Join(_)
Join(lines) ==
    IF lines = <<>> THEN <<>>
    ELSE IF Len(lines) = 1 THEN lines[1]
    ELSE lines[1] \o <<"\n">> \o Join(Tail(lines))

get_tool_descriptions == Join(descriptions)

\* tool_names = [t.name for t in tools]
tool_names == [i \in DOMAIN create_calendar_tools |-> create_calendar_tools[i].name]

(***************************************************************************)
(* Texts the tools are given.  json_loads is json.loads on these texts: a  *)
(* text outside JsonTexts raises JSONDecodeError.                          *)
(***************************************************************************)
In_n5    == Txt("5")
In_id    == Txt("evt1")
In_date  == Txt("2025-12-25")
In_x     == Txt("x")
J_create == Txt("{\"summary\":\"Meeting\",\"start_datetime\":\"2025-12-25T10:00:00\",\"end_datetime\":\"2025-12-25T11:00:00\"}")
J_slot   == Txt("{\"start_datetime\":\"2025-12-25T10:00:00\",\"end_datetime\":\"2025-12-25T11:00:00\"}")
J_update == Txt("{\"event_id\":\"evt1\",\"summary\":\"Review\"}")
J_only_id == Txt("{\"event_id\":\"evt1\"}")
J_move   == Txt("{\"event_id\":\"evt1\",\"start_datetime\":\"2025-12-25T11:00:00\",\"end_datetime\":\"2025-12-25T12:00:00\"}")
J_blank  == Txt("{\"event_id\":\"evt1\",\"summary\":\"\",\"location\":\"Room 2\"}")
J_no_id  == Txt("{\"summary\":\"Review\"}")
J_by_id  == Txt("{\"id\":\"evt1\"}")
J_both   == Txt("{\"event_id\":\"evt1\",\"id\":\"evt2\"}")
\* the same objects written with single quotes, as the tool descriptions
\* show them (tools.py:252, 282)
Q_create == Txt("{'summary':'Meeting','start_datetime':'2025-12-25T10:00:00','end_datetime':'2025-12-25T11:00:00'}")
Q_slot   == Txt("{'start_datetime':'2025-12-25T10:00:00','end_datetime':'2025-12-25T11:00:00'}")
Q_update == Txt("{'event_id':'evt1','summary':'Review'}")

T10 == "2025-12-25T10:00:00"
T11 == "2025-12-25T11:00:00"
T12 == "2025-12-25T12:00:00"

JsonTexts == {J_create, J_slot, J_update, J_only_id, J_move, J_blank, J_no_id, J_by_id,
              J_both, In_n5}

\* the JSON texts whose value is an object (a dict)
JsonObjectTexts == {J_create, J_slot, J_update, J_only_id, J_move, J_blank, J_no_id,
                    J_by_id, J_both}

json_loads(t) ==
    CASE t = J_create -> [summary |-> "Meeting", start_datetime |-> T10, end_datetime |-> T11]
      [] t = J_slot   -> [start_datetime |-> T10, end_datetime |-> T11]
      [] t = J_update -> [event_id |-> "evt1", summary |-> "Review"]
      [] t = J_only_id -> [event_id |-> "evt1"]
      [] t = J_move   -> [event_id |-> "evt1", start_datetime |-> T11, end_datetime |-> T12]
      [] t = J_blank  -> [event_id |-> "evt1", summary |-> "", location |-> "Room 2"]
      [] t = J_no_id  -> [summary |-> "Review"]
      [] t = J_by_id  -> [id |-> "evt1"]
      [] t = J_both   -> [event_id |-> "evt1", id |-> "evt2"]
      [] OTHER        -> [scalar |-> t[1]]

\* dict.get(key), None rendered as the empty string
Get(d, k) == IF k \in DOMAIN d THEN d[k] ELSE ""

(***************************************************************************)
(* The calendar backend (external): the events it holds and the number of  *)
(* ids it has issued.  A request either fails with an HTTP error (500, or  *)
(* 404 for an id it does not hold) or is served from the events held.      *)
(***************************************************************************)
IdOf(n) == CASE n = 1 -> "evt1" [] n = 2 -> "evt2" [] n = 3 -> "evt3" [] OTHER -> "evt4"

LinkOf(n) == CASE n = 1 -> "link1" [] n = 2 -> "link2" [] n = 3 -> "link3" [] OTHER -> "link4"

HourOf(t) == CASE t = T10 -> 10 [] t = T11 -> 11 [] t = T12 -> 12 [] OTHER -> 0

DayOf(t) == IF t \in {T10, T11, T12} THEN "2025-12-25" ELSE ""

Today == "2025-12-26"

\* what a request that does not succeed raises: an HttpError with a status
\* ("fail"), or another exception: get_calendar_service() finding no
\* credentials ("auth"), the connection failing ("net")
StatusOf(outcome) ==
    CASE outcome = "auth" -> "FileNotFoundError"
      [] outcome = "net"  -> "ServerNotFoundError"
      [] OTHER            -> "500"

EmptyBackend == [events |-> <<>>, issued |-> 0]

HasEvent(b, id) == \E i \in DOMAIN b.events : b.events[i].id = id

SelectEvents(evs, Keep(_)) ==
    LET F[i \in 0..Len(evs)] ==
            IF i = 0 THEN <<>>
            ELSE IF Keep(evs[i]) THEN Append(F[i-1], evs[i]) ELSE F[i-1]
    IN F[Len(evs)]

\* events().insert(body).execute()
BackendInsert(b, body, outcome) ==
    IF outcome # "ok" THEN [raised |-> TRUE, status |-> StatusOf(outcome), backend |-> b]
    ELSE LET ev == [id |-> IdOf(b.issued + 1), summary |-> body.summary,
                    start |-> body.start, end |-> body.end,
                    description |-> Get(body, "description"),
                    location |-> Get(body, "location"),
                    htmlLink |-> LinkOf(b.issued + 1)]
         IN [raised |-> FALSE, status |-> "200", event |-> ev,
             backend |-> [events |-> Append(b.events, ev), issued |-> b.issued + 1]]

\* events().patch(eventId, body).execute()
BackendPatch(b, id, body, outcome) ==
    IF outcome # "ok" THEN [raised |-> TRUE, status |-> StatusOf(outcome), backend |-> b]
    ELSE IF ~HasEvent(b, id) THEN [raised |-> TRUE, status |-> "404", backend |-> b]
    ELSE LET Patch(e) == [k \in DOMAIN e |-> IF k \in DOMAIN body THEN body[k] ELSE e[k]]
             evs == [i \in DOMAIN b.events |->
                        IF b.events[i].id = id THEN Patch(b.events[i]) ELSE b.events[i]]
             i0  == CHOOSE i \in DOMAIN evs : evs[i].id = id
         IN [raised |-> FALSE, status |-> "200", event |-> evs[i0],
             backend |-> [b EXCEPT !.events = evs]]

\* events().delete(eventId).execute()
BackendDelete(b, id, outcome) ==
    IF outcome # "ok" THEN [raised |-> TRUE, status |-> StatusOf(outcome), backend |-> b]
    ELSE IF ~HasEvent(b, id) THEN [raised |-> TRUE, status |-> "404", backend |-> b]
    ELSE LET Keep(e) == e.id # id
         IN [raised |-> FALSE, status |-> "200",
             backend |-> [b EXCEPT !.events = SelectEvents(b.events, Keep)]]

\* events().list(timeMin, timeMax).execute(): the events of one day that
\* overlap the hours [from, to]
BackendList(b, day, from, to, outcome) ==
    IF outcome # "ok" THEN [raised |-> TRUE, status |-> StatusOf(outcome), backend |-> b]
    ELSE LET Keep(e) == /\ DayOf(e.start) = day
                        /\ HourOf(e.start) < to
                        /\ HourOf(e.end) > from
         IN [raised |-> FALSE, status |-> "200",
             items |-> SelectEvents(b.events, Keep), backend |-> b]

\* events().list(timeMin=now, maxResults).execute()
BackendUpcoming(b, max_results, outcome) ==
    IF outcome # "ok" THEN [raised |-> TRUE, status |-> StatusOf(outcome), backend |-> b]
    ELSE LET n == IF Len(b.events) < max_results THEN Len(b.events) ELSE max_results
         IN [raised |-> FALSE, status |-> "200",
             items |-> SubSeq(b.events, 1, n), backend |-> b]

(***************************************************************************)
(* calendar_tools/calendar_operations.py.  Each operation returns the      *)
(* result dict and the backend after the request.  The emoji of the        *)
(* source's messages are written as ASCII tags: [X] [OK] [CAL] [WARN].     *)
(***************************************************************************)
NoneVal == "<None>"

\* the error text of the except branch taken: the HTTP error, or str(e)
HttpErrorText(status) ==
    CASE status = "FileNotFoundError"   -> <<"credentials.json not found">>
      [] status = "ServerNotFoundError" -> <<"Unable to find the server at www.googleapis.com">>
      [] OTHER                          -> <<"HTTP error: ", status, " - details">>

Truthy(v) == v # ""

\* the request an operation sends with the service it got: none when
\* get_calendar_service() raised
Sent(outcome, request) == IF outcome = "auth" THEN <<>> ELSE <<request>>

create_event(b, params, outcome) ==
    LET opt  == {k \in {"description", "location"} : Truthy(Get(params, k))}
        body == [k \in {"summary", "start", "end"} \cup opt |->
                    CASE k = "summary" -> params.summary
                      [] k = "start"   -> params.start_datetime
                      [] k = "end"     -> params.end_datetime
                      [] OTHER         -> params[k]]
        r    == BackendInsert(b, body, outcome)
        sent == Sent(outcome, [method |-> "insert", body |-> body])
    IN IF r.raised
       THEN [backend |-> r.backend, requests |-> sent,
             result  |-> [success |-> FALSE, error |-> HttpErrorText(r.status),
                          summary |-> params.summary]]
       ELSE [backend |-> r.backend, requests |-> sent,
             result  |-> [success |-> TRUE, event_id |-> r.event.id,
                          summary |-> r.event.summary, start |-> r.event.start,
                          end |-> r.event.end, link |-> r.event.htmlLink]]

\* the patch built from every argument that was passed, empty or not
update_event_passed(b, params, outcome) ==
    LET keys == {k \in {"summary", "start_datetime", "end_datetime",
                        "description", "location"} : k \in DOMAIN params}
        Field(k) == CASE k = "start_datetime" -> "start"
                      [] k = "end_datetime"   -> "end"
                      [] OTHER                -> k
        patch_body == [f \in {Field(k) : k \in keys} |->
                          params[CHOOSE k \in keys : Field(k) = f]]
        r == BackendPatch(b, params.event_id, patch_body, outcome)
        sent == Sent(outcome, [method |-> "patch", eventId |-> params.event_id,
                               body |-> patch_body])
    IN IF r.raised
       THEN [backend |-> r.backend, requests |-> sent,
             result  |-> [success |-> FALSE, error |-> HttpErrorText(r.status)]]
       ELSE [backend |-> r.backend, requests |-> sent,
             result  |-> [success |-> TRUE, event_id |-> r.event.id,
                          summary |-> r.event.summary, start |-> r.event.start,
                          end |-> r.event.end]]

update_event(b, params, outcome) ==
    LET keys == {k \in {"summary", "start_datetime", "end_datetime",
                        "description", "location"} : Truthy(Get(params, k))}
        Field(k) == CASE k = "start_datetime" -> "start"
                      [] k = "end_datetime"   -> "end"
                      [] OTHER                -> k
        patch_body == [f \in {Field(k) : k \in keys} |->
                          params[CHOOSE k \in keys : Field(k) = f]]
        r == BackendPatch(b, params.event_id, patch_body, outcome)
        sent == Sent(outcome, [method |-> "patch", eventId |-> params.event_id,
                               body |-> patch_body])
    IN IF r.raised
       THEN [backend |-> r.backend, requests |-> sent,
             result  |-> [success |-> FALSE, error |-> HttpErrorText(r.status)]]
       ELSE [backend |-> r.backend, requests |-> sent,
             result  |-> [success |-> TRUE, event_id |-> r.event.id,
                          summary |-> r.event.summary, start |-> r.event.start,
                          end |-> r.event.end]]

delete_event(b, event_id, outcome) ==
    LET r == BackendDelete(b, event_id, outcome)
        sent == Sent(outcome, [method |-> "delete", eventId |-> event_id])
    IN IF r.raised
       THEN [backend |-> r.backend, requests |-> sent,
             result  |-> [success |-> FALSE, event_id |-> event_id,
                          error |-> IF r.status = "404"
                                    THEN <<"Event '", event_id, "' not found">>
                                    ELSE HttpErrorText(r.status)]]
       ELSE [backend |-> r.backend, requests |-> sent,
             result  |-> [success |-> TRUE, event_id |-> event_id,
                          message |-> <<"Event '", event_id, "' deleted successfully">>]]

Conflict(e) == [id |-> e.id, summary |-> e.summary, start |-> e.start, end |-> e.end]

\* the range asked for with its ends exchanged: timeMin=end, timeMax=start
check_availability_swapped(b, start_datetime, end_datetime, outcome) ==
    LET r == BackendList(b, DayOf(start_datetime), HourOf(end_datetime),
                         HourOf(start_datetime), outcome)
        sent == Sent(outcome, [method |-> "list", timeMin |-> start_datetime,
                               timeMax |-> end_datetime])
    IN IF outcome # "auth" /\ (DayOf(start_datetime) = "" \/ DayOf(end_datetime) = "")
       THEN [backend |-> b, requests |-> <<>>,
             result  |-> [success |-> FALSE, error |-> <<"Invalid isoformat string">>,
                          start |-> start_datetime, end |-> end_datetime]]
       ELSE IF r.raised
       THEN [backend |-> r.backend, requests |-> sent,
             result  |-> [success |-> FALSE, error |-> HttpErrorText(r.status),
                          start |-> start_datetime, end |-> end_datetime]]
       ELSE [backend |-> r.backend, requests |-> sent,
             result  |-> [success |-> TRUE, available |-> r.items = <<>>,
                          start |-> start_datetime, end |-> end_datetime,
                          conflicting_events |->
                              [i \in DOMAIN r.items |-> Conflict(r.items[i])]]]

check_availability(b, start_datetime, end_datetime, outcome) ==
    LET r == BackendList(b, DayOf(start_datetime), HourOf(start_datetime),
                         HourOf(end_datetime), outcome)
        sent == Sent(outcome, [method |-> "list", timeMin |-> start_datetime,
                               timeMax |-> end_datetime])
    IN IF outcome # "auth" /\ (DayOf(start_datetime) = "" \/ DayOf(end_datetime) = "")
       THEN [backend |-> b, requests |-> <<>>,
             result  |-> [success |-> FALSE, error |-> <<"Invalid isoformat string">>,
                          start |-> start_datetime, end |-> end_datetime]]
       ELSE IF r.raised
       THEN [backend |-> r.backend, requests |-> sent,
             result  |-> [success |-> FALSE, error |-> HttpErrorText(r.status),
                          start |-> start_datetime, end |-> end_datetime]]
       ELSE [backend |-> r.backend, requests |-> sent,
             result  |-> [success |-> TRUE, available |-> r.items = <<>>,
                          start |-> start_datetime, end |-> end_datetime,
                          conflicting_events |->
                              [i \in DOMAIN r.items |-> Conflict(r.items[i])]]]

get_daily_report(b, date, outcome) ==
    LET d == IF date = NoneVal THEN Today ELSE date
        r == BackendList(b, d, 0, 24, outcome)
        sent == Sent(outcome, [method |-> "list", timeMin |-> <<d, "T00:00:00">>,
                               timeMax |-> <<d, "T23:59:59">>])
    IN IF outcome # "auth" /\ d \notin {Today, "2025-12-25"}
       THEN [backend |-> b, requests |-> <<>>,
             result  |-> [success |-> FALSE, date |-> d,
                          error |-> <<"time data does not match format">>]]
       ELSE IF r.raised
       THEN [backend |-> r.backend, requests |-> sent,
             result  |-> [success |-> FALSE, date |-> d,
                          error |-> HttpErrorText(r.status)]]
       ELSE [backend |-> r.backend, requests |-> sent,
             result  |-> [success |-> TRUE, date |-> d,
                          event_count |-> Len(r.items), events |-> r.items]]

list_upcoming_events(b, max_results, outcome) ==
    LET r == BackendUpcoming(b, max_results, outcome)
        sent == Sent(outcome, [method |-> "list", maxResults |-> max_results])
    IN IF r.raised
       THEN [backend |-> r.backend, requests |-> sent,
             result  |-> [success |-> FALSE, error |-> HttpErrorText(r.status)]]
       ELSE [backend |-> r.backend, requests |-> sent,
             result  |-> [success |-> TRUE, event_count |-> Len(r.items),
                          events |-> r.items]]

(***************************************************************************)
(* agent/tools.py: the result formatters and the six tool wrappers.  A     *)
(* wrapper returns the observation text and the backend after the call.    *)
(***************************************************************************)
\* str(n)
NumStr(n) == CASE n = 0 -> "0" [] n = 1 -> "1" [] n = 2 -> "2" [] n = 3 -> "3"
               [] n = 4 -> "4" [] n = 5 -> "5" [] n = 10 -> "10" [] OTHER -> "<n>"

RECURSIVE Flatten(_)
Flatten(ss) == IF ss = <<>> THEN <<>> ELSE Head(ss) \o Flatten(Tail(ss))

ErrorOf(result) == IF "error" \in DOMAIN result THEN result.error ELSE <<"Unknown error">>

format_create_event_result(result) ==
    IF ~result.success
    THEN <<"[X] Failed to create event: ">> \o ErrorOf(result)
    ELSE <<"[OK] Event created successfully!", result.summary, "Start: ", result.start,
           "End: ", result.end, "Link: ", result.link, "Event ID: ", result.event_id,
           "Event ID: ", result.event_id, "Link: ", result.link>>

format_delete_event_result(result) ==
    IF ~result.success
    THEN <<"[X] Failed to delete event: ">> \o ErrorOf(result)
    ELSE <<"[OK] ">> \o result.message

format_availability_result(result) ==
    IF ~result.success
    THEN <<"[X] Error checking availability: ">> \o ErrorOf(result)
    ELSE IF result.available
    THEN <<"[OK] Time slot is AVAILABLE (", result.start, " to ", result.end, ")">>
    ELSE LET c == result.conflicting_events
             Bullet(e) == <<"  * ", e.summary, " (", e.start, " - ", e.end, ")">>
         IN <<"[WARN] Time slot is NOT AVAILABLE (", result.start, " to ", result.end, ")",
              "Found ", NumStr(Len(c)), " conflicting event(s):">>
            \o Flatten([i \in DOMAIN c |-> Bullet(c[i])])

DailySummary(result) ==
    IF result.event_count = 0 THEN <<"No events scheduled for ", result.date>>
    ELSE IF result.event_count = 1 THEN <<"You have 1 event scheduled for ", result.date>>
    ELSE <<"You have ", NumStr(result.event_count), " events scheduled for ", result.date>>

format_daily_report_result(result) ==
    IF ~result.success
    THEN <<"[X] Error generating report: ">> \o ErrorOf(result)
    ELSE LET evs == result.events
             Entry(i) == <<NumStr(i), ". ", evs[i].summary,
                           "   Time: ", evs[i].start, " - ", evs[i].end>>
                         \o (IF Truthy(evs[i].location)
                             THEN <<"   Location: ", evs[i].location>> ELSE <<>>)
                         \o (IF Truthy(evs[i].description)
                             THEN <<"   Description: ", evs[i].description, "...">> ELSE <<>>)
                         \o (IF Truthy(evs[i].htmlLink)
                             THEN <<"   Link: ", evs[i].htmlLink>> ELSE <<>>)
         IN <<"[CAL] Daily Report for ", result.date>> \o DailySummary(result)
            \o (IF evs = <<>> THEN <<>>
                ELSE <<"Events:">> \o Flatten([i \in DOMAIN evs |-> Entry(i)]))

format_upcoming_events_result(result) ==
    IF ~result.success
    THEN <<"[X] Error listing events: ">> \o ErrorOf(result)
    ELSE IF result.events = <<>>
    THEN <<"[CAL] No upcoming events found.">>
    ELSE LET evs == result.events
             Entry(i) == <<NumStr(i), ". ", evs[i].summary,
                           "   Time: ", evs[i].start, " - ", evs[i].end>>
                         \o (IF Truthy(evs[i].location)
                             THEN <<"   Location: ", evs[i].location>> ELSE <<>>)
                         \o (IF Truthy(evs[i].htmlLink)
                             THEN <<"   Link: ", evs[i].htmlLink>> ELSE <<>>)
                         \o <<"   ID: ", evs[i].id>>
         IN <<"[CAL] Upcoming Events (", NumStr(result.event_count), " total):">>
            \o Flatten([i \in DOMAIN evs |-> Entry(i)])

\* s.strip().strip('"').strip("'") on a text: the leading and trailing
\* pieces that are blanks, then double quotes, then single quotes, removed
RECURSIVE LStrip(_, _)
LStrip(t, ch) == IF t # <<>> /\ Head(t) = ch THEN LStrip(Tail(t), ch) ELSE t

RECURSIVE RStrip(_, _)
RStrip(t, ch) == IF t # <<>> /\ t[Len(t)] = ch
                 THEN RStrip(SubSeq(t, 1, Len(t) - 1), ch) ELSE t

Strip(t, ch) == RStrip(LStrip(t, ch), ch)

\* single quotes left in place
StripAll_double_only(t) == Strip(Strip(t, " "), "\"")

StripAll(t) == Strip(Strip(Strip(t, " "), "\""), "'")

\* the string a text of at most one piece stands for
StrOf(t) == IF t = <<>> THEN "" ELSE IF Len(t) = 1 THEN t[1] ELSE "<text>"

IntTexts == {"5", "10", "0"}

\* what int() reads of a text: int() ignores blanks around the digits
IntLiteral(t) == StrOf(Strip(t, " "))

int(str) == CASE str = "5" -> 5 [] str = "10" -> 10 [] OTHER -> 0

CreateParams == {"summary", "start_datetime", "end_datetime", "description",
                 "location", "attendees", "calendar_id"}

create_event_tool(b, tool_input, outcome) ==
    IF tool_input \notin JsonTexts
    THEN [backend |-> b, requests |-> <<>>,
          obs |-> <<"[X] Invalid input format. Please provide valid JSON with event details.">>]
    ELSE LET params == json_loads(tool_input)
         IN IF \/ tool_input \notin JsonObjectTexts
               \/ ~(DOMAIN params \subseteq CreateParams)
               \/ ~({"summary", "start_datetime", "end_datetime"} \subseteq DOMAIN params)
            THEN [backend |-> b, requests |-> <<>>, obs |-> <<"[X] Error: ", "TypeError">>]
            ELSE LET r == create_event(b, params, outcome)
                 IN [backend |-> r.backend, requests |-> r.requests, obs |-> format_create_event_result(r.result)]

\* the handler looking for the key id before the key event_id
delete_event_tool_id_first(b, tool_input, outcome) ==
    LET stripped == Strip(tool_input, " ")
        raw == StrOf(stripped)
        event_id ==
            IF stripped \in JsonObjectTexts
            THEN LET params == json_loads(stripped)
                 IN IF "id" \in DOMAIN params THEN params.id
                    ELSE IF "event_id" \in DOMAIN params THEN params.event_id
                    ELSE raw
            ELSE raw
        r == delete_event(b, event_id, outcome)
    IN [backend |-> r.backend, requests |-> r.requests, obs |-> format_delete_event_result(r.result)]

delete_event_tool(b, tool_input, outcome) ==
    LET stripped == Strip(tool_input, " ")
        raw == StrOf(stripped)
        event_id ==
            IF stripped \in JsonObjectTexts
            THEN LET params == json_loads(stripped)
                 IN IF "event_id" \in DOMAIN params THEN params.event_id
                    ELSE IF "id" \in DOMAIN params THEN params.id
                    ELSE raw
            ELSE raw
        r == delete_event(b, event_id, outcome)
    IN [backend |-> r.backend, requests |-> r.requests, obs |-> format_delete_event_result(r.result)]

check_availability_tool(b, tool_input, outcome) ==
    IF tool_input \notin JsonTexts
    THEN [backend |-> b, requests |-> <<>>,
          obs |-> <<"[X] Invalid input format. Please provide valid JSON with start_datetime and end_datetime.">>]
    ELSE LET params == json_loads(tool_input)
         IN IF \/ tool_input \notin JsonObjectTexts
               \/ ~(DOMAIN params \subseteq {"start_datetime", "end_datetime", "calendar_id"})
               \/ ~({"start_datetime", "end_datetime"} \subseteq DOMAIN params)
            THEN [backend |-> b, requests |-> <<>>, obs |-> <<"[X] Error: ", "TypeError">>]
            ELSE LET r == check_availability(b, params.start_datetime,
                                             params.end_datetime, outcome)
                 IN [backend |-> r.backend, requests |-> r.requests, obs |-> format_availability_result(r.result)]

daily_report_tool(b, date, outcome) ==
    LET clean_date == IF date # <<>> THEN StrOf(StripAll(date)) ELSE NoneVal
        r == get_daily_report(b, clean_date, outcome)
    IN [backend |-> r.backend, requests |-> r.requests, obs |-> format_daily_report_result(r.result)]

upcoming_events_tool(b, max_results, outcome) ==
    LET clean_input == StripAll(max_results)
    IN IF clean_input # <<>> /\ IntLiteral(clean_input) \notin IntTexts
       THEN [backend |-> b, requests |-> <<>>,
             obs |-> <<"[X] max_results must be a number (integer)">>]
       ELSE LET max_count == IF clean_input # <<>> THEN int(IntLiteral(clean_input)) ELSE 10
                r == list_upcoming_events(b, max_count, outcome)
            IN [backend |-> r.backend, requests |-> r.requests, obs |-> format_upcoming_events_result(r.result)]

UpdateParams == {"event_id", "summary", "start_datetime", "end_datetime",
                 "description", "location", "calendar_id"}

\* the handler without its test for event_id: update_event(**params) is
\* called and raises for the argument it lacks
update_event_tool_unchecked(b, tool_input, outcome) ==
    IF tool_input \notin JsonTexts
    THEN [backend |-> b, requests |-> <<>>, obs |-> <<"[X] Invalid input format. Please provide valid JSON.">>]
    ELSE LET params == json_loads(tool_input)
         IN IF \/ tool_input \notin JsonObjectTexts
               \/ "event_id" \notin DOMAIN params
               \/ ~(DOMAIN params \subseteq UpdateParams)
            THEN [backend |-> b, requests |-> <<>>, obs |-> <<"[X] Error: ", "TypeError">>]
            ELSE LET r == update_event(b, params, outcome)
                 IN IF ~r.result.success
                    THEN [backend |-> r.backend, requests |-> r.requests,
                          obs |-> <<"[X] Failed to update event: ">> \o ErrorOf(r.result)]
                    ELSE [backend |-> r.backend, requests |-> r.requests,
                          obs |-> <<"[OK] Event updated successfully!", r.result.summary,
                                    "Start: ", r.result.start, "End: ", r.result.end>>]

update_event_tool(b, tool_input, outcome) ==
    IF tool_input \notin JsonTexts
    THEN [backend |-> b, requests |-> <<>>, obs |-> <<"[X] Invalid input format. Please provide valid JSON.">>]
    ELSE LET params == json_loads(tool_input)
         IN IF tool_input \notin JsonObjectTexts
            THEN [backend |-> b, requests |-> <<>>, obs |-> <<"[X] Error: ", "TypeError">>]
            ELSE IF "event_id" \notin DOMAIN params
            THEN [backend |-> b, requests |-> <<>>, obs |-> <<"[X] Missing required field: 'event_id'">>]
            ELSE IF ~(DOMAIN params \subseteq UpdateParams)
            THEN [backend |-> b, requests |-> <<>>, obs |-> <<"[X] Error: ", "TypeError">>]
            ELSE LET r == update_event(b, params, outcome)
                 IN IF ~r.result.success
                    THEN [backend |-> r.backend, requests |-> r.requests,
                          obs |-> <<"[X] Failed to update event: ">> \o ErrorOf(r.result)]
                    ELSE [backend |-> r.backend, requests |-> r.requests,
                          obs |-> <<"[OK] Event updated successfully!", r.result.summary,
                                    "Start: ", r.result.start, "End: ", r.result.end>>]

\* Tool.run(tool_input): the registered func applied to the input
RunFunc(func, b, tool_input, outcome) ==
    CASE func = "create_event_tool"       -> create_event_tool(b, tool_input, outcome)
      [] func = "delete_event_tool"       -> delete_event_tool(b, tool_input, outcome)
      [] func = "check_availability_tool" -> check_availability_tool(b, tool_input, outcome)
      [] func = "daily_report_tool"       -> daily_report_tool(b, tool_input, outcome)
      [] func = "upcoming_events_tool"    -> upcoming_events_tool(b, tool_input, outcome)
      [] func = "update_event_tool"       -> update_event_tool(b, tool_input, outcome)

(***************************************************************************)
(* The language model (external).  A completion is the sequence of the     *)
(* lines of its text, each with the marker that begins it.                 *)
(***************************************************************************)
Line(tag, text) == [tag |-> tag, text |-> text]

N_foo == Txt("foo_event")

FakeObs == Txt("[OK] Event created! Link: https://calendar.google.com/event?eid=abc")

Answer1 == Txt("You are free!")
Answer2 == Txt("Your Meeting has been added.")

ActionCompletion(name, input) ==
    <<Line("Thought", Txt("next")), Line("Action", name), Line("Action Input", input)>>

NominalCompletion == ActionCompletion(N_list, In_n5)

\* completions that extend the scratchpad and leave the nominal path
DeviantCompletions ==
    { ActionCompletion(N_create, J_create),
      ActionCompletion(N_delete, In_id),
      ActionCompletion(N_check, <<" ">> \o J_slot),
      ActionCompletion(N_report, <<"\"">> \o In_date \o <<"\"">>),
      ActionCompletion(N_update, J_update),
      ActionCompletion(N_foo, In_x),
      <<>>,
      <<Line("Thought", Txt("I will create the event"))>>,
      <<Line("Action", N_create)>>,
      <<Line("Action", N_create), Line("Action Input", J_create),
        Line("Observation", FakeObs), Line("Final Answer", Answer2)>> }

\* completions that end the run
FinalCompletions ==
    { <<Line("Thought", Txt("done")), Line("Final Answer", Answer1)>>,
      <<Line("Observation", FakeObs), Line("Final Answer", Answer2)>> }

Completions == {NominalCompletion} \cup DeviantCompletions \cup FinalCompletions

(***************************************************************************)
(* The reasoning loop (AgentExecutor with the ReAct output parser).        *)
(***************************************************************************)
TagAt(c, tag) == {i \in DOMAIN c : c[i].tag = tag}

Min(S) == CHOOSE x \in S : \A y \in S : x <= y
Max(S) == CHOOSE x \in S : \A y \in S : x >= y

\* an action directive: an "Action:" line with an "Action Input:" line after it
ActionMatch(c) ==
    {<<i, j>> \in TagAt(c, "Action") \X TagAt(c, "Action Input") : i < j}

includes_answer(c) == TagAt(c, "Final Answer") # {}

CorrectiveNote == Txt("Invalid or incomplete response")

\* PARSE: an action, a final answer, or a parse error
OutputParser(c) ==
    IF ActionMatch(c) # {} /\ includes_answer(c) THEN [kind |-> "error", log |-> c]
    ELSE IF ActionMatch(c) # {}
    THEN LET i == Min(TagAt(c, "Action"))
             j == Min({k \in TagAt(c, "Action Input") : k > i})
         IN [kind |-> "action", tool |-> Strip(c[i].text, " "),
             tool_input |-> Strip(Strip(c[j].text, " "), "\""), log |-> c]
    ELSE IF includes_answer(c)
    THEN [kind |-> "final", output |-> Strip(c[Max(TagAt(c, "Final Answer"))].text, " "),
          log |-> c]
    ELSE [kind |-> "error", log |-> c]

NoParse == [kind |-> "none"]

\* name_to_tool_map = {tool.name: tool for tool in tools}
InRegistry(name) == \E i \in DOMAIN create_calendar_tools : create_calendar_tools[i].name = name

ToolFunc(name) ==
    create_calendar_tools[Max({i \in DOMAIN create_calendar_tools :
                                   create_calendar_tools[i].name = name})].func

InvalidToolObs(name) ==
    name \o <<" is not a valid tool, try one of ">> \o Flatten(tool_names)

AgentStep(tool, tool_input, log, observation) ==
    [tool |-> tool, tool_input |-> tool_input, log |-> log, observation |-> observation]

ExceptionTool == Txt("_Exception")

should_continue(iters, elapsed) ==
    /\ iters < max_iterations
    /\ elapsed < max_execution_time

StopMsg == Txt("Agent stopped due to iteration limit or time limit.")

return_stopping_response(method) ==
    IF method = "force" THEN [raised |-> FALSE, output |-> StopMsg]
    ELSE [raised |-> TRUE, exc |-> Txt("Got unsupported early_stopping_method")]

(***************************************************************************)
(* The conversation session, CalendarAssistantChat.                        *)
(***************************************************************************)
UserInputs == {Txt("List my events"), Txt("Add Meeting at 10am")}

GatewayError == Txt("Connection refused")

Last(seq, k) == IF Len(seq) <= k THEN seq ELSE SubSeq(seq, Len(seq) - k + 1, Len(seq))

HumanMessage(content) == [role |-> "human", content |-> content]
AIMessage(content)    == [role |-> "ai", content |-> content]

\* the observations of the last run's steps handed on with the stored turns
HistoryMessages_with_steps(history) ==
    LET h == Last(history, HistoryWindow)
    IN Flatten([i \in DOMAIN h |-> <<HumanMessage(h[i][1]), AIMessage(h[i][2])>>])
         \o [i \in DOMAIN intermediate_steps |-> AIMessage(intermediate_steps[i].observation)]

\* chat(): the messages built from chat_history[-5:]
HistoryMessages(history) ==
    LET h == Last(history, HistoryWindow)
    IN Flatten([i \in DOMAIN h |-> <<HumanMessage(h[i][1]), AIMessage(h[i][2])>>])

\* the output read under a key the response does not have
chat_output_wrong_key(response) ==
    IF "answer" \in DOMAIN response THEN response.answer
    ELSE Txt("I apologize, but I couldn't process that request.")

\* chat(): response.get("output", ...)
chat_output(response) ==
    IF "output" \in DOMAIN response THEN response.output
    ELSE Txt("I apologize, but I couldn't process that request.")

\* the pair appended in the wrong order
chat_append_swapped(history, input, output) == Append(history, <<output, input>>)

\* a pair whose input is already stored is not stored again
chat_append_dedup(history, input, output) ==
    IF \E i \in DOMAIN history : history[i][1] = input
    THEN history
    ELSE Append(history, <<input, output>>)

\* the pair inserted at the front of the list
chat_append_front(history, input, output) == <<(<<input, output>>)>> \o history

\* chat(): self.chat_history.append((user_input, output))
chat_append(history, input, output) == Append(history, <<input, output>>)

\* an except clause that catches parsing errors only
chat_catches_value_error(e) == e = Txt("An output parsing error occurred.")

\* chat(): except Exception as e
chat_catches(e) == TRUE

chat_error_msg(e) == <<"[X] Error: ">> \o e

get_history == chat_history

\* session states a call can start from
\* get_history() returning the list itself
list_alias(l) == [held |-> TRUE, live |-> TRUE, items |-> l]

\* get_history(): self.chat_history.copy().  A list a caller holds is
\* either the session's own list object (live) or another object with
\* the items it was given.
list_copy(l) == [held |-> TRUE, live |-> FALSE, items |-> l]

NoSnapshot == [held |-> FALSE, live |-> FALSE, items |-> <<>>]

\* app.py: the browser sessions served by the one process
Users == {"u1", "u2"}

IdleThread == [pc |-> "idle", message |-> None, window |-> <<>>, read_from |-> <<>>]

StoredPair == <<Txt("What is on today?"), Answer1>>

BackendWithEvent ==
    [events |-> << [id |-> "evt1", summary |-> "Standup", start |-> T10, end |-> T11,
                    description |-> "", location |-> "Room 1", htmlLink |-> "link1"] >>,
     issued |-> 1]

\* one chat() call, from a session with or without stored history
Init ==
    /\ \E s0 \in {<<<<>>, EmptyBackend>>, <<<<StoredPair>>, BackendWithEvent>>} :
          /\ chat_history = s0[1]
          /\ backend = s0[2]
    /\ turns = 0
    /\ pc = "idle"
    /\ user_input = None
    /\ langchain_history = <<>>
    /\ intermediate_steps = <<>>
    /\ iterations = 0
    /\ time_elapsed = 0
    /\ now = 0
    /\ completion = <<>>
    /\ parsed = NoParse
    /\ llm_calls = 0
    /\ llm_last_at = 0
    /\ dispatched = <<>>
    /\ exc = None
    /\ ret = None
    /\ escaped = FALSE
    /\ deviations = 0
    /\ last_op = "init"
    /\ snapshot = NoSnapshot
    /\ threads = [u \in Users |-> IdleThread]
    /\ chatbot = [u \in Users |-> <<>>]
    /\ handled = {}
    /\ catalogue = None

\* chat(user_input) up to self.agent.invoke(...): the loop starts
ChatStart(u) ==
    /\ pc = "idle"
    /\ turns' = turns + 1
    /\ user_input' = u
    /\ langchain_history' = HistoryMessages(chat_history)
    /\ intermediate_steps' = <<>>
    /\ iterations' = 0
    /\ time_elapsed' = 0
    /\ now' = 0
    /\ completion' = <<>>
    /\ parsed' = NoParse
    /\ llm_calls' = 0
    /\ llm_last_at' = 0
    /\ dispatched' = <<>>
    /\ exc' = None
    /\ pc' = "AWAIT_MODEL"
    /\ UNCHANGED <<snapshot, last_op, threads, chatbot>>
    /\ UNCHANGED <<chat_history, ret, escaped, backend, deviations>>
    /\ UNCHANGED handled
    /\ UNCHANGED catalogue

Latencies(budget) == IF budget > 0 THEN {0, SlowLatency} ELSE {0}

Cost(c, lat) == (IF c \in DeviantCompletions THEN 1 ELSE 0) + (IF lat > 0 THEN 1 ELSE 0)

\* AWAIT_MODEL -> PARSE -> DISPATCH, FINAL or AWAIT_MODEL: the model is
\* called and its completion classified; a parse error is folded into the
\* scratchpad as a corrective step and consumes the iteration
ModelCall ==
    /\ pc = "AWAIT_MODEL"
    /\ should_continue(iterations, time_elapsed)
    /\ \E c \in Completions, lat \in Latencies(MaxDeviations - deviations) :
          LET p == OutputParser(c)
          IN /\ deviations + Cost(c, lat) <= MaxDeviations
             /\ deviations' = deviations + Cost(c, lat)
             /\ completion' = c
             /\ now' = now + lat
             /\ parsed' = p
             /\ CASE p.kind = "action" ->
                       /\ pc' = "DISPATCH"
                       /\ UNCHANGED <<intermediate_steps, iterations, time_elapsed, exc>>
                  [] p.kind = "final" ->
                       /\ pc' = "FINAL"
                       /\ UNCHANGED <<intermediate_steps, iterations, time_elapsed, exc>>
                  [] OTHER ->
                       IF handle_parsing_errors
                       THEN /\ intermediate_steps' =
                                   Append(intermediate_steps,
                                          AgentStep(ExceptionTool, CorrectiveNote, p.log,
                                                    CorrectiveNote))
                            /\ iterations' = iterations + 1
                            /\ time_elapsed' = now + lat
                            /\ pc' = "AWAIT_MODEL"
                            /\ UNCHANGED exc
                       ELSE /\ exc' = Txt("An output parsing error occurred.")
                            /\ pc' = "RAISED"
                            /\ UNCHANGED <<intermediate_steps, iterations, time_elapsed>>
    /\ llm_calls' = llm_calls + 1
    /\ llm_last_at' = now
    /\ UNCHANGED <<snapshot, last_op, threads, chatbot>>
    /\ UNCHANGED <<chat_history, turns, user_input, langchain_history,
                   dispatched, ret, escaped, backend>>
    /\ UNCHANGED handled
    /\ UNCHANGED catalogue

\* AWAIT_MODEL: the model gateway is unreachable, the call raises
ModelFail ==
    /\ pc = "AWAIT_MODEL"
    /\ should_continue(iterations, time_elapsed)
    /\ llm_calls' = llm_calls + 1
    /\ llm_last_at' = now
    /\ exc' = GatewayError
    /\ pc' = "RAISED"
    /\ UNCHANGED <<snapshot, last_op, threads, chatbot>>
    /\ UNCHANGED <<chat_history, turns, user_input, langchain_history,
                   intermediate_steps, iterations, time_elapsed, now, completion,
                   parsed, dispatched, ret, escaped, backend, deviations>>
    /\ UNCHANGED handled
    /\ UNCHANGED catalogue

Outcomes(budget) == IF budget > 0 THEN {"ok", "fail"} ELSE {"ok"}

DispatchCost(outcome, lat) ==
    (IF outcome # "ok" THEN 1 ELSE 0) + (IF lat > 0 THEN 1 ELSE 0)

\* DISPATCH for a registered tool: the handler runs once on the parsed
\* input and what it returns is the step's observation
DispatchTool ==
    /\ pc = "DISPATCH"
    /\ InRegistry(parsed.tool)
    /\ \E outcome \in Outcomes(MaxDeviations - deviations),
          lat \in Latencies(MaxDeviations - deviations) :
          LET func == ToolFunc(parsed.tool)
              r    == RunFunc(func, backend, parsed.tool_input, outcome)
          IN /\ deviations + DispatchCost(outcome, lat) <= MaxDeviations
             /\ deviations' = deviations + DispatchCost(outcome, lat)
             /\ backend' = r.backend
             /\ dispatched' = Append(dispatched,
                                     [tool |-> parsed.tool, func |-> func,
                                      tool_input |-> parsed.tool_input,
                                      result |-> r.obs, at |-> now])
             /\ intermediate_steps' =
                    Append(intermediate_steps,
                           AgentStep(parsed.tool, parsed.tool_input, parsed.log, r.obs))
             /\ now' = now + lat
             /\ time_elapsed' = now + lat
    /\ iterations' = iterations + 1
    /\ pc' = "AWAIT_MODEL"
    /\ UNCHANGED <<snapshot, last_op, threads, chatbot>>
    /\ UNCHANGED <<chat_history, turns, user_input, langchain_history, completion,
                   parsed, llm_calls, llm_last_at, exc, ret, escaped>>
    /\ handled' = handled \cup {[turn |-> turns, tool |-> parsed.tool,
                                 tool_input |-> parsed.tool_input]}
    /\ UNCHANGED catalogue

\* DISPATCH for a name that is not registered: no handler runs
DispatchUnknown ==
    /\ pc = "DISPATCH"
    /\ ~InRegistry(parsed.tool)
    /\ intermediate_steps' =
           Append(intermediate_steps,
                  AgentStep(parsed.tool, parsed.tool_input, parsed.log,
                            InvalidToolObs(parsed.tool)))
    /\ iterations' = iterations + 1
    /\ time_elapsed' = now
    /\ pc' = "AWAIT_MODEL"
    /\ UNCHANGED <<snapshot, last_op, threads, chatbot>>
    /\ UNCHANGED <<chat_history, turns, user_input, langchain_history, now,
                   completion, parsed, llm_calls, llm_last_at, dispatched, exc, ret,
                   escaped, backend, deviations>>
    /\ UNCHANGED handled
    /\ UNCHANGED catalogue

\* AWAIT_MODEL with a budget used up: the loop stops without a model call
Abort ==
    /\ pc = "AWAIT_MODEL"
    /\ ~should_continue(iterations, time_elapsed)
    /\ LET r == return_stopping_response(early_stopping_method)
       IN IF r.raised
          THEN /\ exc' = r.exc
               /\ pc' = "RAISED"
               /\ UNCHANGED parsed
          ELSE /\ parsed' = [kind |-> "stopped", output |-> r.output]
               /\ pc' = "ABORTED"
               /\ UNCHANGED exc
    /\ UNCHANGED <<snapshot, last_op, threads, chatbot>>
    /\ UNCHANGED <<chat_history, turns, user_input, langchain_history,
                   intermediate_steps, iterations, time_elapsed, now, completion,
                   llm_calls, llm_last_at, dispatched, ret, escaped, backend,
                   deviations>>
    /\ UNCHANGED handled
    /\ UNCHANGED catalogue

\* FINAL or ABORTED: the loop returns {"output": ...}; chat() appends the
\* pair and returns the output
ChatReturn ==
    /\ pc \in {"FINAL", "ABORTED"}
    /\ LET output == chat_output([output |-> parsed.output])
       IN /\ chat_history' = chat_append(chat_history, user_input, output)
          /\ ret' = output
    /\ pc' = "returned"
    /\ UNCHANGED <<snapshot, last_op, threads, chatbot>>
    /\ UNCHANGED <<turns, user_input, langchain_history, intermediate_steps,
                   iterations, time_elapsed, now, completion, parsed, llm_calls,
                   llm_last_at, dispatched, exc, escaped, backend, deviations>>
    /\ UNCHANGED handled
    /\ UNCHANGED catalogue

\* the loop raised: chat()'s except clause turns it into an error text
ChatExcept ==
    /\ pc = "RAISED"
    /\ IF chat_catches(exc)
       THEN /\ ret' = chat_error_msg(exc)
            /\ UNCHANGED escaped
       ELSE /\ ret' = None
            /\ escaped' = TRUE
    /\ pc' = "returned"
    /\ UNCHANGED <<snapshot, last_op, threads, chatbot>>
    /\ UNCHANGED <<chat_history, turns, user_input, langchain_history,
                   intermediate_steps, iterations, time_elapsed, now, completion,
                   parsed, llm_calls, llm_last_at, dispatched, exc, backend,
                   deviations>>
    /\ UNCHANGED handled
    /\ UNCHANGED catalogue

Next ==
    \/ \E u \in UserInputs : ChatStart(u)
    \/ ModelCall
    \/ ModelFail
    \/ DispatchTool
    \/ DispatchUnknown
    \/ Abort
    \/ ChatReturn
    \/ ChatExcept

Spec == Init /\ [][Next]_vars

(***************************************************************************)
(* Properties of one run of the reasoning loop.                            *)
(***************************************************************************)
SixToolNames == {N_create, N_delete, N_check, N_report, N_list, N_update}

LastOf(seq) == seq[Len(seq)]

HasActionDirective(c) ==
    \E i, j \in DOMAIN c : i < j /\ c[i].tag = "Action" /\ c[j].tag = "Action Input"

HasFinalDirective(c) == \E i \in DOMAIN c : c[i].tag = "Final Answer"

\* C1: once a completion is classified as a final answer, the next step of
\* the run is its return: the value returned is exactly the answer text of
\* the completion's final-answer line, and no handler is dispatched, no
\* backend request made and no model call issued in between.
C1_FinalReturnsAnswer ==
    [][pc = "FINAL" =>
          /\ pc' = "returned"
          /\ \E i \in DOMAIN completion :
                /\ completion[i].tag = "Final Answer"
                /\ ret' = completion[i].text
          /\ dispatched' = dispatched
          /\ backend' = backend
          /\ llm_calls' = llm_calls]_vars

C1_Witness ==
    /\ pc = "returned"
    /\ parsed.kind = "final"
    /\ ret = Answer2
    /\ Len(dispatched) >= 1

\* C2: when the completion parses as an action naming one of the six
\* registered tools, the dispatch step runs one handler execution, for that
\* tool and on the parsed input, and appends a step carrying what the
\* handler returned to the scratchpad, with no model call in between.
C2_HandlerOncePerIteration ==
    [][(pc = "DISPATCH" /\ parsed.tool \in SixToolNames) =>
          /\ Len(dispatched') = Len(dispatched) + 1
          /\ LastOf(dispatched').tool = parsed.tool
          /\ LastOf(dispatched').tool_input = parsed.tool_input
          /\ \E outcome \in {"ok", "fail"} :
                LastOf(dispatched').result =
                    RunFunc(LastOf(dispatched').func, backend, parsed.tool_input,
                            outcome).obs
          /\ intermediate_steps' =
                Append(intermediate_steps,
                       [tool |-> parsed.tool, tool_input |-> parsed.tool_input,
                        log |-> completion,
                        observation |-> LastOf(dispatched').result])
          /\ llm_calls' = llm_calls
          /\ pc' = "AWAIT_MODEL"]_vars

C2_Witness ==
    /\ pc = "AWAIT_MODEL"
    /\ Len(intermediate_steps) >= 2
    /\ LastOf(intermediate_steps).tool = N_report
    /\ LastOf(intermediate_steps).tool_input = In_date
    /\ LastOf(dispatched).result = LastOf(intermediate_steps).observation

\* C3: the iterations consumed in a run (action, unknown-tool and
\* parse-error steps together) never exceed 10, and each consumed iteration
\* has its step in the scratchpad.
C3_IterationCeiling ==
    /\ iterations <= 10
    /\ pc \in {"AWAIT_MODEL", "DISPATCH", "FINAL", "ABORTED", "RAISED"} =>
          Len(intermediate_steps) = iterations

C3_Witness ==
    /\ iterations = 10
    /\ \E i \in DOMAIN intermediate_steps : intermediate_steps[i].tool = ExceptionTool

AllActionSteps ==
    \A i \in DOMAIN intermediate_steps : intermediate_steps[i].tool # ExceptionTool

\* C4: after ten iterations that each produced an action and no final
\* answer, the run makes no eleventh model call: its next step is the move
\* to ABORTED, and from there chat() returns the loop's answer string to the
\* caller, with no exception raised or propagated.
C4_TenActionsAbort ==
    [][/\ (iterations = 10 /\ AllActionSteps /\ pc = "AWAIT_MODEL") =>
             /\ pc' = "ABORTED"
             /\ llm_calls = 10
             /\ llm_calls' = llm_calls
             /\ dispatched' = dispatched
       /\ (iterations = 10 /\ AllActionSteps /\ pc = "ABORTED") =>
             /\ pc' = "returned"
             /\ ret' = StopMsg
             /\ exc' = None
             /\ escaped' = FALSE]_vars

C4_Witness ==
    /\ pc = "returned"
    /\ iterations = 10
    /\ AllActionSteps
    /\ llm_calls = 10
    /\ ret = StopMsg
    /\ \E i \in DOMAIN intermediate_steps : intermediate_steps[i].tool = N_foo

DispatchedAfter(t) == {i \in DOMAIN dispatched : dispatched[i].at > t}

C6_ParseErrorConsumesIteration ==
    [][(/\ llm_calls' = llm_calls + 1
        /\ exc' # GatewayError
        /\ HasActionDirective(completion') = HasFinalDirective(completion')) =>
          /\ pc' = "AWAIT_MODEL"
          /\ iterations' = iterations + 1
          /\ Len(intermediate_steps') = Len(intermediate_steps) + 1
          /\ SubSeq(intermediate_steps', 1, Len(intermediate_steps)) = intermediate_steps
          /\ LastOf(intermediate_steps').tool = ExceptionTool
          /\ LastOf(intermediate_steps').observation = CorrectiveNote
          /\ LastOf(intermediate_steps').log = completion'
          /\ dispatched' = dispatched
          /\ backend' = backend
          /\ ret' = ret
          /\ chat_history' = chat_history]_vars

C6_Witness ==
    /\ pc = "AWAIT_MODEL"
    /\ iterations >= 2
    /\ HasActionDirective(completion)
    /\ HasFinalDirective(completion)
    /\ LastOf(intermediate_steps).observation = CorrectiveNote

\* C7: a dispatch for a tool name that is none of the registered names runs
\* no handler and makes no backend request; the step recorded carries an
\* explicit unknown-tool error naming the tool, one iteration is consumed,
\* the loop goes on to AWAIT_MODEL, and no exception is raised or reaches
\* the caller.
C7_UnknownToolObservation ==
    [][(pc = "DISPATCH" /\ parsed.tool \notin SixToolNames) =>
          /\ dispatched' = dispatched
          /\ backend' = backend
          /\ Len(intermediate_steps') = Len(intermediate_steps) + 1
          /\ LastOf(intermediate_steps').tool = parsed.tool
          /\ SubSeq(LastOf(intermediate_steps').observation, 1, 2) =
                parsed.tool \o <<" is not a valid tool, try one of ">>
          /\ iterations' = iterations + 1
          /\ pc' = "AWAIT_MODEL"
          /\ exc' = None
          /\ escaped' = FALSE]_vars

C7_Witness ==
    /\ pc = "FINAL"
    /\ iterations >= 2
    /\ \E i \in DOMAIN intermediate_steps :
          /\ intermediate_steps[i].tool = N_foo
          /\ i < Len(intermediate_steps)
    /\ dispatched # <<>>

ToolSteps == SelectSeq(intermediate_steps, LAMBDA st : st.tool \in SixToolNames)

ModelTexts(st) == {st.log[i].text : i \in DOMAIN st.log}

\* C8: in every state of a turn the tool-result observations of the
\* scratchpad are, in order, the return values of the handler executions
\* dispatched in this turn for the tools named; every other observation is
\* the loop's own corrective or unknown-tool text; and no observation is a
\* text of the model's completion.
C8_ObservationsComeFromHandlers ==
    /\ Len(ToolSteps) = Len(dispatched)
    /\ \A k \in DOMAIN ToolSteps :
          /\ ToolSteps[k].tool = dispatched[k].tool
          /\ ToolSteps[k].tool_input = dispatched[k].tool_input
          /\ ToolSteps[k].observation = dispatched[k].result
    /\ \A i \in DOMAIN intermediate_steps :
          LET st == intermediate_steps[i]
          IN /\ st.tool \notin SixToolNames =>
                   st.observation \in {CorrectiveNote, InvalidToolObs(st.tool)}
             /\ st.observation \notin ModelTexts(st)

C8_Witness ==
    /\ \E i \in DOMAIN intermediate_steps :
          /\ intermediate_steps[i].tool = N_create
          /\ intermediate_steps[i].observation[1] = "[OK] Event created successfully!"
    /\ Len(intermediate_steps) >= 3
    /\ pc = "FINAL"
    /\ \E i \in DOMAIN completion : completion[i] = Line("Observation", FakeObs)

(***************************************************************************)
(* The session over several turns.  A turn is one chat() call; what        *)
(* self.agent.invoke does inside it is one of the outcomes a run of the    *)
(* loop has: a response with an output, or an exception.                   *)
(***************************************************************************)
LoopOutputs == {Answer1, Answer2, StopMsg}

LoopExceptions == {GatewayError}

InvokeOutcomes ==
    {[raised |-> FALSE, response |-> [output |-> t], exc |-> None] : t \in LoopOutputs}
    \cup {[raised |-> TRUE, response |-> [output |-> None], exc |-> e] : e \in LoopExceptions}

\* every run of Spec ends in one of InvokeOutcomes
RunOutcomesCovered ==
    /\ pc \in {"FINAL", "ABORTED"} => parsed.output \in LoopOutputs
    /\ pc = "RAISED" => exc \in LoopExceptions

InitSession ==
    /\ chat_history = <<>>
    /\ backend = EmptyBackend
    /\ turns = 0
    /\ pc = "idle"
    /\ user_input = None
    /\ langchain_history = <<>>
    /\ intermediate_steps = <<>>
    /\ iterations = 0
    /\ time_elapsed = 0
    /\ now = 0
    /\ completion = <<>>
    /\ parsed = NoParse
    /\ llm_calls = 0
    /\ llm_last_at = 0
    /\ dispatched = <<>>
    /\ exc = None
    /\ ret = None
    /\ escaped = FALSE
    /\ deviations = 0
    /\ last_op = "init"
    /\ snapshot = NoSnapshot
    /\ threads = [u \in Users |-> IdleThread]
    /\ chatbot = [u \in Users |-> <<>>]
    /\ handled = {}
    /\ catalogue = None

\* a chat() whose except clause stores the failed input with its error text
Turn_records_failure(u) ==
    /\ pc = "idle"
    /\ turns < MaxTurns
    /\ turns' = turns + 1
    /\ user_input' = u
    /\ langchain_history' = HistoryMessages(chat_history)
    /\ \E o \in InvokeOutcomes :
          /\ exc' = o.exc
          /\ IF ~o.raised
             THEN LET output == chat_output(o.response)
                  IN /\ chat_history' = chat_append(chat_history, u, output)
                     /\ ret' = output
                     /\ UNCHANGED escaped
             ELSE /\ IF chat_catches(o.exc)
                     THEN /\ ret' = chat_error_msg(o.exc)
                          /\ UNCHANGED escaped
                     ELSE /\ ret' = None
                          /\ escaped' = TRUE
                  /\ chat_history' = chat_append(chat_history, u, chat_error_msg(o.exc))
    /\ last_op' = "chat"
    /\ UNCHANGED <<snapshot, threads, chatbot>>
    /\ UNCHANGED <<pc, intermediate_steps, iterations, time_elapsed, now, completion,
                   parsed, llm_calls, llm_last_at, dispatched, backend, deviations>>
    /\ UNCHANGED handled
    /\ UNCHANGED catalogue

\* chat(user_input), from the call to its return
Turn(u) ==
    /\ pc = "idle"
    /\ turns < MaxTurns
    /\ turns' = turns + 1
    /\ user_input' = u
    /\ langchain_history' = HistoryMessages(chat_history)
    /\ \E o \in InvokeOutcomes :
          /\ exc' = o.exc
          /\ IF ~o.raised
             THEN LET output == chat_output(o.response)
                  IN /\ chat_history' = chat_append(chat_history, u, output)
                     /\ ret' = output
                     /\ UNCHANGED escaped
             ELSE /\ IF chat_catches(o.exc)
                     THEN /\ ret' = chat_error_msg(o.exc)
                          /\ UNCHANGED escaped
                     ELSE /\ ret' = None
                          /\ escaped' = TRUE
                  /\ UNCHANGED chat_history
    /\ last_op' = "chat"
    /\ UNCHANGED <<snapshot, threads, chatbot>>
    /\ UNCHANGED <<pc, intermediate_steps, iterations, time_elapsed, now, completion,
                   parsed, llm_calls, llm_last_at, dispatched, backend, deviations>>
    /\ UNCHANGED handled
    /\ UNCHANGED catalogue

\* a reset() that compares instead of assigning
Reset_compares ==
    /\ pc = "idle"
    /\ last_op' = "reset"
    /\ UNCHANGED <<chat_history, turns, pc, user_input, langchain_history,
                   intermediate_steps, iterations, time_elapsed, now, completion,
                   parsed, llm_calls, llm_last_at, dispatched, exc, ret, escaped,
                   backend, deviations, snapshot, threads, chatbot>>
    /\ UNCHANGED handled
    /\ UNCHANGED catalogue

\* reset()
Reset ==
    /\ pc = "idle"
    /\ chat_history' = <<>>
    /\ last_op' = "reset"
    /\ UNCHANGED <<snapshot, threads, chatbot>>
    /\ UNCHANGED <<turns, pc, user_input, langchain_history, intermediate_steps,
                   iterations, time_elapsed, now, completion, parsed, llm_calls,
                   llm_last_at, dispatched, exc, ret, escaped, backend, deviations>>
    /\ UNCHANGED handled
    /\ UNCHANGED catalogue

NextSession ==
    \/ \E u \in UserInputs : Turn(u)
    \/ Reset

SpecSession == InitSession /\ [][NextSession]_vars

(***************************************************************************)
(* Properties of the session.                                              *)
(***************************************************************************)
\* C9: a turn in which the loop raises returns an error text to the caller
\* and propagates nothing, leaving the stored history as it was; and the
\* turn that follows a failed turn is given the window of that history and,
\* when its run returns, appends its pair to it.
C9_FailedTurnKeepsSessionUsable ==
    [][/\ (turns' = turns + 1 /\ exc' # None) =>
             /\ ret' = <<"[X] Error: ">> \o exc'
             /\ escaped' = FALSE
             /\ chat_history' = chat_history
             /\ pc' = "idle"
       /\ (turns' = turns + 1 /\ exc # None) =>
             /\ langchain_history' = HistoryMessages(chat_history)
             /\ exc' = None => chat_history' = Append(chat_history, <<user_input', ret'>>)]_vars

C9_Witness ==
    /\ turns = 2
    /\ exc = GatewayError
    /\ ret = <<"[X] Error: ">> \o GatewayError
    /\ Len(chat_history) = 1
    /\ escaped = FALSE

\* C10: after a turn whose run returned an output, get_history() is one
\* element longer than before the turn and its last element is the pair
\* (input, output) of that turn.
C10_HistoryEndsWithTurnPair ==
    [][(turns' = turns + 1 /\ exc' = None) =>
          /\ Len(get_history') = Len(get_history) + 1
          /\ LastOf(get_history') = <<user_input', ret'>>
          /\ ret' \in LoopOutputs]_vars

C10_Witness ==
    /\ Len(get_history) = 2
    /\ exc = None
    /\ LastOf(get_history) = <<user_input, ret>>
    /\ get_history[1] # get_history[2]

(***************************************************************************)
(* A session that has already completed four turns.                        *)
(***************************************************************************)
LongHistory ==
    << <<Txt("List my events"), Answer1>>,
       <<Txt("Add Meeting at 10am"), Answer2>>,
       <<Txt("List my events"), StopMsg>>,
       <<Txt("Add Meeting at 10am"), Answer1>> >>

InitLongSession ==
    /\ chat_history = LongHistory
    /\ backend = EmptyBackend
    /\ turns = 0
    /\ pc = "idle"
    /\ user_input = None
    /\ langchain_history = <<>>
    /\ intermediate_steps = <<>>
    /\ iterations = 0
    /\ time_elapsed = 0
    /\ now = 0
    /\ completion = <<>>
    /\ parsed = NoParse
    /\ llm_calls = 0
    /\ llm_last_at = 0
    /\ dispatched = <<>>
    /\ exc = None
    /\ ret = None
    /\ escaped = FALSE
    /\ deviations = 0
    /\ last_op = "init"
    /\ snapshot = NoSnapshot
    /\ threads = [u \in Users |-> IdleThread]
    /\ chatbot = [u \in Users |-> <<>>]
    /\ handled = {}
    /\ catalogue = None

SpecLongSession == InitLongSession /\ [][NextSession]_vars

\* the messages of the last min(n, 5) pairs of a history of n pairs
LastFiveMessages(history) ==
    LET n == Len(history)
        k == IF n < 5 THEN n ELSE 5
    IN [i \in 1..(2 * k) |->
           LET pair == history[n - k + ((i + 1) \div 2)]
           IN IF i % 2 = 1 THEN [role |-> "human", content |-> pair[1]]
                           ELSE [role |-> "ai", content |-> pair[2]]]

\* C11: the history given to the loop for a turn is the last min(n, 5) of
\* the n stored pairs, oldest first, each as the user message followed by
\* the assistant message; the turn removes no stored pair, and the stored
\* history grows past five pairs.
C11_WindowIsLastFivePairs ==
    [][turns' = turns + 1 =>
          /\ langchain_history' = LastFiveMessages(chat_history)
          /\ Len(chat_history') >= Len(chat_history)
          /\ SubSeq(chat_history', 1, Len(chat_history)) = chat_history]_vars

C11_Witness ==
    /\ Len(chat_history) = 7
    /\ Len(langchain_history) = 10
    /\ langchain_history[1] = [role |-> "human", content |-> chat_history[2][1]]
    /\ langchain_history[10] = [role |-> "ai", content |-> chat_history[6][2]]

(***************************************************************************)
(* The caller of the session: besides chat() and reset() it calls          *)
(* get_history() and changes the list it is given.                         *)
(***************************************************************************)
ForeignPair == <<Txt("injected"), Txt("forged")>>

ListEdits == {"append", "pop", "clear"}

\* list.append(pair), list.pop(), list.clear()
Edited(items, e) ==
    CASE e = "append" -> Append(items, ForeignPair)
      [] e = "pop"    -> SubSeq(items, 1, Len(items) - 1)
      [] e = "clear"  -> <<>>

Edits(snap) == IF "edits" \in DOMAIN snap THEN snap.edits ELSE 0

\* get_history()
GetHistory ==
    /\ pc = "idle"
    /\ snapshot' = list_copy(chat_history)
    /\ last_op' = "get_history"
    /\ UNCHANGED <<chat_history, turns, pc, user_input, langchain_history,
                   intermediate_steps, iterations, time_elapsed, now, completion,
                   parsed, llm_calls, llm_last_at, dispatched, exc, ret, escaped,
                   backend, deviations, threads, chatbot>>
    /\ UNCHANGED handled
    /\ UNCHANGED catalogue

\* the caller changes the list it holds; a change to the session's own
\* list object is a change of chat_history
EditSnapshot(e) ==
    /\ pc = "idle"
    /\ snapshot.held
    /\ Edits(snapshot) < MaxEdits
    /\ e = "pop" => snapshot.items # <<>>
    /\ snapshot' = [held |-> TRUE, live |-> snapshot.live,
                    items |-> Edited(snapshot.items, e),
                    edits |-> Edits(snapshot) + 1]
    /\ chat_history' = IF snapshot.live THEN Edited(chat_history, e) ELSE chat_history
    /\ last_op' = "edit"
    /\ UNCHANGED <<turns, pc, user_input, langchain_history,
                   intermediate_steps, iterations, time_elapsed, now, completion,
                   parsed, llm_calls, llm_last_at, dispatched, exc, ret, escaped,
                   backend, deviations, threads, chatbot>>
    /\ UNCHANGED handled
    /\ UNCHANGED catalogue

NextClient ==
    \/ \E u \in UserInputs : Turn(u)
    \/ Reset
    \/ GetHistory
    \/ \E e \in ListEdits : EditSnapshot(e)

SpecClient == InitSession /\ [][NextClient]_vars

IsPrefix(s, t) == Len(s) <= Len(t) /\ SubSeq(t, 1, Len(s)) = s

\* C12: after reset() the history get_history() returns is empty, whatever
\* the session held before; a get_history() call that follows a reset
\* returns the empty sequence and a turn that follows a reset is given an
\* empty history window.
C12_ResetEmptiesHistory ==
    [][/\ last_op' = "reset" => get_history' = <<>>
       /\ (last_op = "reset" /\ last_op' = "get_history") => snapshot'.items = <<>>
       /\ (last_op = "reset" /\ last_op' = "chat") => langchain_history' = <<>>]_vars

C12_Witness ==
    /\ last_op = "get_history"
    /\ snapshot.items = <<>>
    /\ chat_history = <<>>
    /\ turns = 2
    /\ ret \in LoopOutputs
    /\ Len(langchain_history) = 2

\* C13: the list get_history() returns has the stored pairs, and a caller
\* appending to it, removing from it or clearing it changes that list only:
\* the stored history stays as it was, and so does the window a later turn
\* is given.
C13_GetHistoryReturnsCopy ==
    [][/\ (last_op' = "get_history" /\ snapshot' # snapshot) =>
             snapshot'.items = chat_history
       /\ last_op' = "edit" =>
             /\ \E e \in ListEdits : snapshot'.items = Edited(snapshot.items, e)
             /\ chat_history' = chat_history
             /\ HistoryMessages(chat_history') = HistoryMessages(chat_history)
       /\ (last_op = "edit" /\ last_op' = "chat") =>
             /\ langchain_history' = HistoryMessages(chat_history)
             /\ \A i \in DOMAIN langchain_history' :
                   langchain_history'[i].content \notin {ForeignPair[1], ForeignPair[2]}]_vars

C13_Witness ==
    /\ last_op = "chat"
    /\ snapshot.held
    /\ snapshot.items = <<>>
    /\ Edits(snapshot) = 1
    /\ Len(chat_history) = 2
    /\ Len(langchain_history) = 2

\* C14: the stored history changes only by a completed turn appending its
\* pair or by reset() emptying it; over chat() and get_history() calls the
\* history before the call is a prefix of the history after it.
C14_HistoryAppendOnly ==
    [][/\ last_op' \in {"chat", "get_history"} => IsPrefix(chat_history, chat_history')
       /\ chat_history' # chat_history =>
             \/ /\ last_op' = "chat"
                /\ exc' = None
                /\ chat_history' = Append(chat_history, <<user_input', ret'>>)
             \/ /\ last_op' = "reset"
                /\ chat_history' = <<>>]_vars

C14_Witness ==
    /\ Len(chat_history) = 3
    /\ snapshot.held
    /\ Len(snapshot.items) = 1
    /\ snapshot.items[1] = chat_history[1]
    /\ exc = None

(***************************************************************************)
(* app.py: the Gradio interface.  The module creates one                   *)
(* CalendarAssistantChat, chat_assistant, when it is imported; the         *)
(* handlers of every browser session call it.  A handler runs on a worker  *)
(* thread: bot_response is registered on two listeners (msg.submit and     *)
(* submit.click) and reset_conversation with queue=False, so a call can    *)
(* start while another one is between reading its window and appending.    *)
(***************************************************************************)
\* the session instance that serves a user: chat_interface and
\* reset_conversation use the module-level chat_assistant for every user
session_history(u) == chat_history

BlankMessage == Txt(" ")

PleaseEnter == Txt("Please enter a message.")

Actor(u, op) == [user |-> u, op |-> op]

\* user_message, then bot_response -> chat_interface -> chat_assistant.chat
\* up to self.agent.invoke: the window is read from the history
BotResponseStart(u, m) ==
    /\ threads[u].pc = "idle"
    /\ turns < MaxTurns
    /\ turns' = turns + 1
    /\ threads' = [threads EXCEPT ![u] =
                      [pc |-> "running", message |-> m,
                       window |-> HistoryMessages(session_history(u)),
                       read_from |-> session_history(u)]]
    /\ last_op' = Actor(u, "chat")
    /\ UNCHANGED <<chat_history, pc, user_input, langchain_history,
                   intermediate_steps, iterations, time_elapsed, now, completion,
                   parsed, llm_calls, llm_last_at, dispatched, exc, ret, escaped,
                   backend, deviations, snapshot, chatbot>>
    /\ UNCHANGED handled
    /\ UNCHANGED catalogue

\* chat_assistant.chat from the return of self.agent.invoke, then
\* bot_response filling in the reply
BotResponseFinish(u) ==
    /\ threads[u].pc = "running"
    /\ \E o \in InvokeOutcomes :
          LET reply == IF ~o.raised THEN chat_output(o.response)
                       ELSE chat_error_msg(o.exc)
          IN /\ chat_history' = IF ~o.raised
                                THEN chat_append(chat_history, threads[u].message, reply)
                                ELSE chat_history
             /\ chatbot' = [chatbot EXCEPT ![u] = Append(@, <<threads[u].message, reply>>)]
    /\ threads' = [threads EXCEPT ![u] = IdleThread]
    /\ last_op' = Actor(u, "done")
    /\ UNCHANGED <<turns, pc, user_input, langchain_history,
                   intermediate_steps, iterations, time_elapsed, now, completion,
                   parsed, llm_calls, llm_last_at, dispatched, exc, ret, escaped,
                   backend, deviations, snapshot>>
    /\ UNCHANGED handled
    /\ UNCHANGED catalogue

\* chat_interface for an empty or blank message: chat() is not called
BotResponseBlank(u) ==
    /\ threads[u].pc = "idle"
    /\ turns < MaxTurns
    /\ turns' = turns + 1
    /\ chatbot' = [chatbot EXCEPT ![u] = Append(@, <<BlankMessage, PleaseEnter>>)]
    /\ last_op' = Actor(u, "blank")
    /\ UNCHANGED <<chat_history, pc, user_input, langchain_history,
                   intermediate_steps, iterations, time_elapsed, now, completion,
                   parsed, llm_calls, llm_last_at, dispatched, exc, ret, escaped,
                   backend, deviations, snapshot, threads>>
    /\ UNCHANGED handled
    /\ UNCHANGED catalogue

\* reset.click: reset_conversation, not queued
ResetClick(u) ==
    /\ chat_history' = <<>>
    /\ chatbot' = [chatbot EXCEPT ![u] = <<>>]
    /\ last_op' = Actor(u, "reset")
    /\ UNCHANGED <<turns, pc, user_input, langchain_history,
                   intermediate_steps, iterations, time_elapsed, now, completion,
                   parsed, llm_calls, llm_last_at, dispatched, exc, ret, escaped,
                   backend, deviations, snapshot, threads>>
    /\ UNCHANGED handled
    /\ UNCHANGED catalogue

\* a Clear Chat wired to the handler of Reset Agent
ClearClick_resets(u) ==
    /\ chat_history' = <<>>
    /\ chatbot' = [chatbot EXCEPT ![u] = <<>>]
    /\ last_op' = Actor(u, "clear")
    /\ UNCHANGED <<turns, pc, user_input, langchain_history,
                   intermediate_steps, iterations, time_elapsed, now, completion,
                   parsed, llm_calls, llm_last_at, dispatched, exc, ret, escaped,
                   backend, deviations, snapshot, threads>>
    /\ UNCHANGED handled
    /\ UNCHANGED catalogue

\* clear.click: the chatbot is emptied, the session is not touched
ClearClick(u) ==
    /\ chatbot' = [chatbot EXCEPT ![u] = <<>>]
    /\ last_op' = Actor(u, "clear")
    /\ UNCHANGED <<chat_history, turns, pc, user_input, langchain_history,
                   intermediate_steps, iterations, time_elapsed, now, completion,
                   parsed, llm_calls, llm_last_at, dispatched, exc, ret, escaped,
                   backend, deviations, snapshot, threads>>
    /\ UNCHANGED handled
    /\ UNCHANGED catalogue

NextApp ==
    \/ \E u \in Users, m \in UserInputs : BotResponseStart(u, m)
    \/ \E u \in Users : BotResponseFinish(u)
    \/ \E u \in Users : BotResponseBlank(u)
    \/ \E u \in Users : ResetClick(u)
    \/ \E u \in Users : ClearClick(u)

SpecApp == InitSession /\ [][NextApp]_vars

\* C15: a turn or a reset made by one user leaves the history that the
\* turns of every other user are given as context as it was.
C15_UserSessionsAreSeparate ==
    [][\A u \in Users :
          (last_op'.user # u /\ last_op'.op \in {"done", "reset"}) =>
              HistoryMessages(session_history(u))' = HistoryMessages(session_history(u))]_vars

\* C16: while a chat call on the session is between reading its window and
\* appending its pair, no other chat or reset call on the session starts,
\* and the history the call appends to is the history it read its window
\* from.
C16_TurnsDoNotOverlap ==
    [][\A u \in Users :
          /\ threads[u].pc = "running" => last_op'.op \notin {"chat", "reset"}
          /\ (threads[u].pc = "running" /\ last_op' = Actor(u, "done")) =>
                 chat_history = threads[u].read_from]_vars

(***************************************************************************)
(* Exceptions in the tool handlers.  An exception raised in a try block    *)
(* is caught by the first except clause naming its class or a base class   *)
(* of it; the exception classes here all derive from Exception.            *)
(***************************************************************************)
NoExc == ""

IsSubclass(kind, clause) ==
    \/ clause = "Exception"
    \/ kind = clause
    \/ kind = "JSONDecodeError" /\ clause = "ValueError"

Caught(kind, clauses) == \E c \in clauses : IsSubclass(kind, c)

\* the except clauses around the body of each calendar operation
operation_except(op) ==
    CASE op = "create_event"         -> {"HttpError", "Exception"}
      [] op = "update_event"         -> {"HttpError", "Exception"}
      [] op = "delete_event"         -> {"HttpError", "Exception"}
      [] op = "check_availability"   -> {"HttpError", "Exception"}
      [] op = "get_daily_report"     -> {"HttpError", "Exception"}
      [] op = "list_upcoming_events" -> {"HttpError", "Exception"}

\* what the body of a calendar operation raises: get_calendar_service()
\* or the request failing, or a date that does not parse
OperationRaises(op, bad_date, outcome) ==
    CASE outcome = "auth" -> "FileNotFoundError"
      [] bad_date /\ op \in {"check_availability", "get_daily_report"} -> "ValueError"
      [] outcome = "net"  -> "ServerNotFoundError"
      [] outcome = "fail" -> "HttpError"
      [] OTHER            -> NoExc

\* the exception that leaves a calendar operation
OperationEscapes(op, bad_date, outcome) ==
    LET k == OperationRaises(op, bad_date, outcome)
    IN IF k = NoExc \/ Caught(k, operation_except(op)) THEN NoExc ELSE k

\* a handler whose try has lost its last clause
handler_except_narrow(func) ==
    CASE func = "create_event_tool"       -> {"JSONDecodeError", "Exception"}
      [] func = "delete_event_tool"       -> {}
      [] func = "check_availability_tool" -> {"JSONDecodeError", "Exception"}
      [] func = "daily_report_tool"       -> {}
      [] func = "upcoming_events_tool"    -> {"ValueError", "TypeError", "Exception"}
      [] func = "update_event_tool"       -> {"JSONDecodeError"}

\* the except clauses around the body of each handler; delete_event_tool
\* guards json.loads alone and daily_report_tool has no try
handler_except(func) ==
    CASE func = "create_event_tool"       -> {"JSONDecodeError", "Exception"}
      [] func = "delete_event_tool"       -> {}
      [] func = "check_availability_tool" -> {"JSONDecodeError", "Exception"}
      [] func = "daily_report_tool"       -> {}
      [] func = "upcoming_events_tool"    -> {"ValueError", "TypeError", "Exception"}
      [] func = "update_event_tool"       -> {"JSONDecodeError", "Exception"}

\* f(**params): TypeError unless params is a dict whose keys are
\* parameters of f and include the required ones
CallRaises(tool_input, allowed, required) ==
    IF tool_input \notin JsonObjectTexts THEN "TypeError"
    ELSE LET params == json_loads(tool_input)
         IN IF ~(DOMAIN params \subseteq allowed) \/ ~(required \subseteq DOMAIN params)
            THEN "TypeError" ELSE NoExc

First(kinds) ==
    IF \A i \in DOMAIN kinds : kinds[i] = NoExc THEN NoExc
    ELSE kinds[CHOOSE i \in DOMAIN kinds :
                  kinds[i] # NoExc /\ \A j \in 1..(i - 1) : kinds[j] = NoExc]

\* what the statements of a handler raise, in the order they run
HandlerRaises(func, tool_input, outcome) ==
    CASE func = "create_event_tool" ->
            First(<<IF tool_input \in JsonTexts THEN NoExc ELSE "JSONDecodeError",
                    CallRaises(tool_input, CreateParams,
                               {"summary", "start_datetime", "end_datetime"}),
                    OperationEscapes("create_event", FALSE, outcome)>>)
      [] func = "delete_event_tool" ->
            OperationEscapes("delete_event", FALSE, outcome)
      [] func = "check_availability_tool" ->
            First(<<IF tool_input \in JsonTexts THEN NoExc ELSE "JSONDecodeError",
                    CallRaises(tool_input,
                               {"start_datetime", "end_datetime", "calendar_id"},
                               {"start_datetime", "end_datetime"}),
                    OperationEscapes("check_availability", FALSE, outcome)>>)
      [] func = "daily_report_tool" ->
            OperationEscapes("get_daily_report",
                             tool_input # <<>>
                                 /\ StrOf(StripAll(tool_input)) \notin {Today, "2025-12-25"},
                             outcome)
      [] func = "upcoming_events_tool" ->
            First(<<IF \/ StripAll(tool_input) = <<>>
                       \/ IntLiteral(StripAll(tool_input)) \in IntTexts
                    THEN NoExc ELSE "ValueError",
                    OperationEscapes("list_upcoming_events", FALSE, outcome)>>)
      [] func = "update_event_tool" ->
            First(<<IF tool_input \in JsonTexts THEN NoExc ELSE "JSONDecodeError",
                    IF tool_input \in JsonObjectTexts THEN NoExc ELSE "TypeError",
                    IF tool_input \in JsonObjectTexts
                          /\ "event_id" \notin DOMAIN json_loads(tool_input)
                    THEN NoExc
                    ELSE First(<<CallRaises(tool_input, UpdateParams, {"event_id"}),
                                 OperationEscapes("update_event", FALSE, outcome)>>)>>)

\* the exception a handler raises to its caller
HandlerEscapes(func, tool_input, outcome) ==
    LET k == HandlerRaises(func, tool_input, outcome)
    IN IF k = NoExc \/ Caught(k, handler_except(func)) THEN NoExc ELSE k

(***************************************************************************)
(* The handlers on their own: any registered handler is run on any of the  *)
(* input texts, with any outcome of the backend request.                   *)
(***************************************************************************)
J_bad == Txt("{\"event_id\":")

ToolInputs == {In_n5, In_id, In_date, In_x, J_create, J_slot, J_update, J_bad,
               <<>>, <<" ", "2025-12-25", " ">>, <<"\"", "5", "\"">>}

BackendOutcomes == {"ok", "fail", "auth", "net"}

InitTools ==
    /\ backend \in {EmptyBackend, BackendWithEvent}
    /\ chat_history = <<>>
    /\ turns = 0
    /\ pc = "idle"
    /\ user_input = None
    /\ langchain_history = <<>>
    /\ intermediate_steps = <<>>
    /\ iterations = 0
    /\ time_elapsed = 0
    /\ now = 0
    /\ completion = <<>>
    /\ parsed = NoParse
    /\ llm_calls = 0
    /\ llm_last_at = 0
    /\ dispatched = <<>>
    /\ exc = None
    /\ ret = None
    /\ escaped = FALSE
    /\ deviations = 0
    /\ last_op = "init"
    /\ snapshot = NoSnapshot
    /\ threads = [u \in Users |-> IdleThread]
    /\ chatbot = [u \in Users |-> <<>>]
    /\ handled = {}
    /\ catalogue = None

\* Tool.run: the handler of a registered tool is called with a text
ToolRun(t, tool_input, outcome) ==
    /\ exc = None
    /\ t.func = "create_event_tool" => backend.issued < MaxEvents
    /\ LET k == HandlerEscapes(t.func, tool_input, outcome)
       IN IF k = NoExc
          THEN LET r == RunFunc(t.func, backend, tool_input, outcome)
               IN /\ dispatched' = << [tool |-> t.name, func |-> t.func,
                                       tool_input |-> tool_input, outcome |-> outcome,
                                       result |-> r.obs, requests |-> r.requests,
                                       at |-> 0] >>
                  /\ backend' = r.backend
                  /\ UNCHANGED exc
          ELSE /\ exc' = Txt(k)
               /\ UNCHANGED <<dispatched, backend>>
    /\ UNCHANGED <<chat_history, turns, pc, user_input, langchain_history,
                   intermediate_steps, iterations, time_elapsed, now, completion,
                   parsed, llm_calls, llm_last_at, ret, escaped, deviations,
                   last_op, snapshot, threads, chatbot>>
    /\ UNCHANGED handled
    /\ UNCHANGED catalogue

NextTools ==
    \E i \in DOMAIN create_calendar_tools, tool_input \in ToolInputs,
       outcome \in BackendOutcomes :
        ToolRun(create_calendar_tools[i], tool_input, outcome)

SpecTools == InitTools /\ [][NextTools]_vars

IsText(v) == v \in Seq(STRING) /\ v # <<>>

\* C17: whichever of the six handlers is run, on whichever input text and
\* with whichever outcome of the backend request, no exception reaches the
\* caller and what the handler returns is a text.
C17_HandlersReturnText ==
    /\ exc = None
    /\ \A k \in DOMAIN dispatched : IsText(dispatched[k].result)
    /\ \A i \in DOMAIN create_calendar_tools, tool_input \in ToolInputs,
          outcome \in BackendOutcomes :
              HandlerEscapes(create_calendar_tools[i].func, tool_input, outcome) = NoExc

C17_Witness ==
    /\ dispatched # <<>>
    /\ dispatched[1].func = "daily_report_tool"
    /\ dispatched[1].tool_input = In_x
    /\ dispatched[1].outcome = "ok"
    /\ dispatched[1].result = <<"[X] Error generating report: ", "time data does not match format">>
    /\ backend.issued = 2

(***************************************************************************)
(* Runs in which every model call and every tool call returns: the model   *)
(* call does not raise, and a step that can be taken is eventually taken.  *)
(***************************************************************************)
NextReturning ==
    \/ \E u \in UserInputs : ChatStart(u)
    \/ ModelCall
    \/ DispatchTool
    \/ DispatchUnknown
    \/ Abort
    \/ ChatReturn

\* the positions of a call from which NextReturning has a step to take
Running == pc \in {"idle", "AWAIT_MODEL", "DISPATCH", "FINAL", "ABORTED"}

\* weak fairness of NextReturning, with its enabling condition written out:
\* a call that can take a step does not stop for ever
FairReturning == []<>(~Running) \/ []<><<NextReturning>>_vars

SpecReturning == Init /\ [][NextReturning]_vars /\ FairReturning

\* C18: a run that is waiting for the model, parsing or dispatching
\* eventually reaches FINAL or ABORTED, and from there chat() returns a
\* text: no sequence of completions keeps the loop going forever.
C18_RunTerminates ==
    /\ (pc \in {"AWAIT_MODEL", "DISPATCH"}) ~> (pc \in {"FINAL", "ABORTED"})
    /\ (pc \in {"FINAL", "ABORTED"}) ~> (pc = "returned" /\ IsText(ret) /\ ~escaped)

C18_Witness ==
    /\ pc = "returned"
    /\ ret = StopMsg
    /\ iterations = max_iterations
    /\ \E i \in DOMAIN intermediate_steps : intermediate_steps[i].tool \notin SixToolNames
    /\ Len(dispatched) = 9

(***************************************************************************)
(* A session of several chat() calls, each followed step by step.          *)
(***************************************************************************)
\* the caller has the reply of one chat() call and is about to make the next
NextMessage ==
    /\ pc = "returned"
    /\ turns < MaxMessages
    /\ pc' = "idle"
    /\ UNCHANGED <<chat_history, turns, user_input, langchain_history,
                   intermediate_steps, iterations, time_elapsed, now, completion,
                   parsed, llm_calls, llm_last_at, dispatched, exc, ret, escaped,
                   backend, deviations, last_op, snapshot, threads, chatbot, handled>>
    /\ UNCHANGED catalogue

NextTurns ==
    \/ Next
    \/ NextMessage

SpecTurns == Init /\ [][NextTurns]_vars

\* the inputs of the turns the session has stored
StoredInputs(history) == {history[i][1] : i \in DOMAIN history}

\* the (tool, input) pair at DISPATCH was dispatched before, in this turn or
\* in an earlier one
RepeatedAction ==
    \E h \in handled : h.tool = parsed.tool /\ h.tool_input = parsed.tool_input

\* C19: nothing is deduplicated.  An action whose tool name and input equal
\* those of an action dispatched earlier, in this turn or in an earlier turn,
\* is run by the handler again and its result recorded as a new step; a user
\* input equal to a stored input of the session is accepted by chat(), runs
\* the loop from AWAIT_MODEL, and on return is stored as one more pair.
C19_NoDeduplication ==
    /\ [](\A u \in StoredInputs(chat_history) \cap UserInputs :
              pc = "idle" => ENABLED ChatStart(u))
    /\ [][/\ (pc = "DISPATCH" /\ InRegistry(parsed.tool) /\ RepeatedAction) =>
                /\ Len(dispatched') = Len(dispatched) + 1
                /\ LastOf(dispatched').tool = parsed.tool
                /\ LastOf(dispatched').tool_input = parsed.tool_input
                /\ Len(intermediate_steps') = Len(intermediate_steps) + 1
                /\ LastOf(intermediate_steps').observation = LastOf(dispatched').result
          /\ (pc = "idle" /\ user_input' \in StoredInputs(chat_history)) =>
                /\ pc' = "AWAIT_MODEL"
                /\ iterations' = 0
          /\ (pc \in {"FINAL", "ABORTED"} /\ user_input \in StoredInputs(chat_history)) =>
                /\ pc' = "returned"
                /\ ret' = parsed.output
                /\ chat_history' = Append(chat_history, <<user_input, ret'>>)]_vars

\* the second turn repeated the first turn's input and returned; its loop
\* dispatched twice the action the first turn had dispatched, and both turns
\* are stored
C19_Witness ==
    /\ pc = "returned"
    /\ turns = 2
    /\ Len(chat_history) = 2
    /\ chat_history[1][1] = chat_history[2][1]
    /\ chat_history[2] = <<user_input, ret>>
    /\ Len(dispatched) = 2
    /\ dispatched[1].tool = dispatched[2].tool
    /\ dispatched[1].tool_input = dispatched[2].tool_input
    /\ \E h \in handled : /\ h.turn = 1
                          /\ h.tool = dispatched[1].tool
                          /\ h.tool_input = dispatched[1].tool_input

\* the texts of the stored turns: their inputs and their outputs
PairTexts(history) == UNION {{history[i][1], history[i][2]} : i \in DOMAIN history}

\* C20: the scratchpad belongs to one turn.  A chat() call starts its loop with
\* an empty scratchpad and a context made of stored inputs and outputs only,
\* whatever the steps of the turn before were; while the loop runs, a step
\* leaves the scratchpad as it was or appends one completed step to it, and
\* changes neither the context nor the stored turns; the end of the turn
\* stores the pair (input, output) and nothing else of the run.
C20_ScratchpadPerTurn ==
    [][/\ pc = "idle" =>
             /\ intermediate_steps' = <<>>
             /\ \A i \in DOMAIN langchain_history' :
                    langchain_history'[i].content \in PairTexts(chat_history)
             /\ UNCHANGED chat_history
       /\ pc \in {"AWAIT_MODEL", "DISPATCH"} =>
             /\ IsPrefix(intermediate_steps, intermediate_steps')
             /\ Len(intermediate_steps') <= Len(intermediate_steps) + 1
             /\ UNCHANGED <<chat_history, langchain_history>>
       /\ pc \in {"FINAL", "ABORTED"} =>
             chat_history' = Append(chat_history, <<user_input, parsed.output>>)
       /\ pc \in {"RAISED", "returned"} => UNCHANGED chat_history]_vars

\* the second turn has returned with one step in its scratchpad; the first
\* turn had created an event, and neither that step nor its observation is in
\* the second turn's scratchpad or context
C20_Witness ==
    /\ pc = "returned"
    /\ turns = 2
    /\ \E h \in handled : h.turn = 1 /\ h.tool = N_create
    /\ Len(intermediate_steps) = 1
    /\ intermediate_steps[1].tool = N_list
    /\ langchain_history # <<>>
    /\ \A i \in DOMAIN langchain_history :
           langchain_history[i].content \in PairTexts(SubSeq(chat_history, 1, Len(chat_history) - 1))
    /\ chat_history[Len(chat_history)] = <<user_input, ret>>

(***************************************************************************)
(* The handlers on the inputs written for them: each registered handler is *)
(* run on the texts a caller may give that tool, well formed or not, with  *)
(* any outcome of the backend request.                                     *)
(***************************************************************************)
Quoted(q, t) == <<q>> \o t \o <<q>>

Padded(t) == <<" ">> \o t \o <<" ">>

InputsFor(func) ==
    CASE func = "create_event_tool"       -> {J_create, Q_create}
      [] func = "delete_event_tool"       ->
            {In_id, Padded(In_id), In_x, J_update, J_by_id, Padded(J_by_id), J_both,
             J_no_id, J_bad, Q_update}
      [] func = "check_availability_tool" -> {J_slot, Q_slot}
      [] func = "daily_report_tool"       ->
            {<<>>, <<" ">>, <<"\"", "\"">>, <<"'", "'">>, In_date, Quoted("\"", In_date),
             Txt(Today), In_x}
      [] func = "upcoming_events_tool"    ->
            {In_n5, Txt("10"), Padded(In_n5), Quoted("\"", In_n5), Quoted("'", In_n5),
             Quoted("\"", Padded(In_n5)), <<>>, <<" ">>, <<"\"", "\"">>, In_x, Txt("5.5")}
      [] func = "update_event_tool"       ->
            {J_update, Q_update, J_only_id, J_move, J_blank, J_no_id, J_create}

NextCalendar ==
    \E i \in DOMAIN create_calendar_tools, outcome \in BackendOutcomes :
        \E tool_input \in InputsFor(create_calendar_tools[i].func) :
            ToolRun(create_calendar_tools[i], tool_input, outcome)

SpecCalendar == InitTools /\ [][NextCalendar]_vars

(***************************************************************************)
(* The tool catalogue, rendered while the handlers are in use.             *)
(***************************************************************************)
\* create_calendar_agent: tools=get_tool_descriptions()
DescribeTools ==
    /\ exc = None
    /\ catalogue' = get_tool_descriptions
    /\ UNCHANGED <<chat_history, turns, pc, user_input, langchain_history,
                   intermediate_steps, iterations, time_elapsed, now, completion,
                   parsed, llm_calls, llm_last_at, dispatched, exc, ret, escaped,
                   backend, deviations, last_op, snapshot, threads, chatbot, handled>>

NextCatalogue ==
    \/ NextCalendar
    \/ DescribeTools

SpecCatalogue == InitTools /\ [][NextCatalogue]_vars

\* the lines of a text: the pieces between its line breaks
RECURSIVE LinesOf(_)
LinesOf(t) ==
    IF \A i \in DOMAIN t : t[i] # "\n" THEN <<t>>
    ELSE LET i == Min({j \in DOMAIN t : t[j] = "\n"})
         IN <<SubSeq(t, 1, i - 1)>> \o LinesOf(SubSeq(t, i + 1, Len(t)))

\* the numbered lines of a catalogue text are its entries; an entry's name is
\* what follows the number
IsEntry(line) ==
    /\ Len(line) >= 2
    /\ line[1] \in {"1. ", "2. ", "3. ", "4. ", "5. ", "6. ", "7. ", "8. ", "9. "}

EntryNames(text) ==
    LET entries == SelectSeq(LinesOf(text), IsEntry)
    IN [i \in DOMAIN entries |-> Txt(entries[i][2])]

\* C21: the registry holds six tools whose names are pairwise distinct; a
\* catalogue text, once rendered, is rendered as the same text by every later
\* call, whatever the handlers did in between; and the entries of the
\* catalogue name exactly the registered tools, each in one entry, in
\* registration order.
C21_CatalogueMatchesRegistry ==
    /\ [](/\ Len(create_calendar_tools) = 6
          /\ \A i, j \in DOMAIN create_calendar_tools :
                 create_calendar_tools[i].name = create_calendar_tools[j].name => i = j
          /\ catalogue # None => EntryNames(catalogue) = tool_names)
    /\ [][catalogue # None => catalogue' = catalogue]_vars

\* the catalogue has been rendered and handlers have changed the calendar
C21_Witness ==
    /\ catalogue = get_tool_descriptions
    /\ Len(LinesOf(catalogue)) = 13
    /\ dispatched # <<>>
    /\ backend.issued = 2

\* the call a step of the handlers has just made
LastCall == dispatched[1]

\* C22: update_event requires event_id.  When the update_event handler is
\* given a JSON object that has no event_id field, whatever its other fields
\* and whatever the backend would have answered, it returns the observation
\* that names the missing field, sends no request and leaves every event as
\* it was.
C22_UpdateRequiresEventId ==
    [][(/\ dispatched' # <<>>
        /\ LastCall'.func = "update_event_tool"
        /\ LastCall'.tool_input \in JsonObjectTexts
        /\ "event_id" \notin DOMAIN json_loads(LastCall'.tool_input)) =>
           /\ LastCall'.result = <<"[X] Missing required field: 'event_id'">>
           /\ LastCall'.requests = <<>>
           /\ backend' = backend]_vars

C22_Witness ==
    /\ dispatched # <<>>
    /\ LastCall.func = "update_event_tool"
    /\ LastCall.tool_input = J_no_id
    /\ LastCall.outcome = "ok"
    /\ LastCall.result = <<"[X] Missing required field: 'event_id'">>
    /\ LastCall.requests = <<>>
    /\ HasEvent(backend, "evt1")

\* the standard JSON text of the object a single-quoted text writes
DoubleQuoted(q) ==
    CASE q = Q_create -> J_create
      [] q = Q_slot   -> J_slot
      [] q = Q_update -> J_update

\* C23: a structured argument may be written as standard JSON or with single
\* quotes.  When create_event, check_availability or update_event is given a
\* single-quoted object, the request it sends, the calendar it leaves and the
\* observation it returns are those of the same call made with the
\* double-quoted text of that object.
C23_SingleQuotedJsonAccepted ==
    [][(/\ dispatched' # <<>>
        /\ LastCall'.func \in {"create_event_tool", "check_availability_tool",
                               "update_event_tool"}
        /\ LastCall'.tool_input \in {Q_create, Q_slot, Q_update}) =>
           LET r == RunFunc(LastCall'.func, backend, DoubleQuoted(LastCall'.tool_input),
                            LastCall'.outcome)
           IN /\ LastCall'.result = r.obs
              /\ LastCall'.requests = r.requests
              /\ backend' = r.backend]_vars

\* an input that carries no date: nothing is left of it once blanks and
\* quotes around it are removed
NoDate(tool_input) == StripAll(tool_input) = <<>>

\* C24: get_daily_report defaults to the current date.  When the handler is
\* given an input that carries no date (the empty text, blanks only, a pair
\* of quotes around nothing), it asks the backend for today's events and
\* returns what the report for today is: the request and the observation are
\* those of get_daily_report called without a date.
C24_DailyReportDefaultsToToday ==
    [][(/\ dispatched' # <<>>
        /\ LastCall'.func = "daily_report_tool"
        /\ NoDate(LastCall'.tool_input)) =>
           LET r == get_daily_report(backend, NoneVal, LastCall'.outcome)
           IN /\ LastCall'.requests = r.requests
              /\ LastCall'.result = format_daily_report_result(r.result)
              /\ r.result.date = Today]_vars

\* the inputs of list_upcoming_events that are an integer, with blanks or
\* quotes around it or without, and the integer each one writes
IntegerInputs ==
    {In_n5, Txt("10"), Padded(In_n5), Quoted("\"", In_n5), Quoted("'", In_n5),
     Quoted("\"", Padded(In_n5))}

IntegerOf(tool_input) == IF tool_input = Txt("10") THEN 10 ELSE 5

\* the inputs that are empty once trimmed
EmptyInputs == {<<>>, <<" ">>, <<"\"", "\"">>}

ProperSlot(e) == HourOf(e.start) < HourOf(e.end)

\* the event with the given id is among the conflicts of a result, with the
\* times it is held with
ListsConflict(result, e) ==
    /\ "conflicting_events" \in DOMAIN result
    /\ \E i \in DOMAIN result.conflicting_events :
          LET c == result.conflicting_events[i]
          IN c.id = e.id /\ c.summary = e.summary /\ c.start = e.start /\ c.end = e.end

ErrorTexts == {chat_error_msg(e) : e \in LoopExceptions}

\* C27: a failed turn leaves no trace in the session.  A chat() call in which
\* the loop raises leaves the stored history exactly as it was, so that
\* get_history() returns after it what it returned before it and a list a
\* caller got before the turn still equals the stored one; no stored pair
\* has an error text as its output; and the context of every turn consists of
\* inputs and outputs of stored pairs only, so neither the failed input nor
\* its error text is in it.
C27_FailedTurnLeavesNoTrace ==
    /\ [][(turns' = turns + 1 /\ exc' # None) =>
             /\ ret' \in ErrorTexts
             /\ chat_history' = chat_history
             /\ get_history' = get_history
             /\ (snapshot.held /\ snapshot.items = get_history) =>
                    snapshot'.items = get_history']_vars
    /\ [][turns' = turns + 1 =>
             \A i \in DOMAIN langchain_history' :
                 /\ langchain_history'[i].content \in PairTexts(chat_history)
                 /\ langchain_history'[i].content \notin ErrorTexts]_vars
    /\ [](\A i \in DOMAIN chat_history : chat_history[i][2] \notin ErrorTexts)

\* the second turn has just failed: the list a caller got after the first
\* turn still equals the stored history, which holds the first turn's pair
\* and nothing of the failed input
C27_Witness ==
    /\ turns = 2
    /\ last_op = "chat"
    /\ exc = GatewayError
    /\ ret \in ErrorTexts
    /\ Len(chat_history) = 1
    /\ user_input \notin StoredInputs(chat_history)
    /\ snapshot.held
    /\ snapshot.items = chat_history

\* C28: Clear Chat and Reset Agent.  Clear Chat empties the conversation
\* displayed to the user who clicks it and leaves the stored history as it
\* was; every turn, the one after a Clear Chat included, is given the window
\* of the stored history as its context; the stored history becomes empty by
\* a Reset Agent action only, and every Reset Agent action empties it.
C28_ClearKeepsStoredHistory ==
    [][\A u \in Users :
          /\ last_op' = Actor(u, "clear") =>
                /\ chatbot'[u] = <<>>
                /\ chat_history' = chat_history
          /\ last_op' = Actor(u, "chat") =>
                threads'[u].window = HistoryMessages(chat_history')
          /\ last_op' = Actor(u, "reset") =>
                /\ chat_history' = <<>>
                /\ chatbot'[u] = <<>>
          /\ (chat_history # <<>> /\ chat_history' = <<>>) => last_op'.op = "reset"]_vars

\* the first message was answered and stored, the display has been cleared,
\* and the second message's turn has the stored pair in its window
C28_Witness ==
    /\ turns = 2
    /\ threads["u1"].pc = "running"
    /\ threads["u2"].pc = "idle"
    /\ Len(chat_history) = 1
    /\ chatbot["u1"] = <<>>
    /\ chatbot["u2"] = <<>>
    /\ threads["u1"].window = HistoryMessages(chat_history)
    /\ Len(threads["u1"].window) = 2

\* C29: the event id delete_event asks the calendar to delete.  The input
\* is trimmed; a trimmed input that does not start with '{', or that is not
\* valid JSON, is the id itself; of a JSON object the value of event_id is
\* the id, otherwise the value of id, and the whole trimmed text when the
\* object has neither key.  With a calendar service obtained, exactly one
\* request is sent, a delete of that id (none is sent when no service could
\* be obtained); when the calendar does not hold the id (404) the
\* observation is the failure text saying the event was not found, and the
\* calendar is left as it was.
DeleteInputs ==
    {In_id, Padded(In_id), In_x, J_update, J_by_id, Padded(J_by_id), J_both, J_no_id,
     J_bad, Q_update}

DerivedId(tool_input) ==
    CASE tool_input = In_id            -> "evt1"
      [] tool_input = Padded(In_id)    -> "evt1"
      [] tool_input = In_x             -> "x"
      [] tool_input = J_update         -> "evt1"
      [] tool_input = J_by_id          -> "evt1"
      [] tool_input = Padded(J_by_id)  -> "evt1"
      [] tool_input = J_both           -> "evt1"
      [] tool_input = J_no_id          -> "{\"summary\":\"Review\"}"
      [] tool_input = J_bad            -> "{\"event_id\":"
      [] tool_input = Q_update         -> "{'event_id':'evt1','summary':'Review'}"

C29_DeleteEventId ==
    [][(/\ dispatched' # <<>>
        /\ exc' = None
        /\ LastCall'.func = "delete_event_tool") =>
           LET id == DerivedId(LastCall'.tool_input)
           IN /\ LastCall'.tool_input \in DeleteInputs
              /\ LastCall'.outcome # "auth" =>
                    LastCall'.requests = << [method |-> "delete", eventId |-> id] >>
              /\ LastCall'.outcome = "auth" => LastCall'.requests = <<>>
              /\ (LastCall'.outcome = "ok" /\ ~HasEvent(backend, id)) =>
                    /\ LastCall'.result =
                          <<"[X] Failed to delete event: ", "Event '", id, "' not found">>
                    /\ backend' = backend]_vars

\* an object with both keys was given and the event named by event_id, not
\* the one named by id, was deleted
C29_Witness ==
    /\ dispatched # <<>>
    /\ LastCall.func = "delete_event_tool"
    /\ LastCall.tool_input = J_both
    /\ LastCall.outcome = "ok"
    /\ LastCall.requests = << [method |-> "delete", eventId |-> "evt1"] >>
    /\ LastCall.result = <<"[OK] ", "Event '", "evt1", "' deleted successfully">>
    /\ ~HasEvent(backend, "evt1")
    /\ HasEvent(backend, "evt2")

\* C30: the patch update_event sends.  Its body holds exactly those of
\* summary, start, end, description and location that the input supplies with
\* a non-empty value; with a calendar service obtained it is the one request
\* sent, for the event id of the input.  On the calendar the event with that
\* id takes the values of the patch and keeps every other field, its id
\* included; every other event, and the calendar when the request fails, stay
\* as they were.  An input with event_id alone sends an empty patch.
UpdateInputs == {J_update, J_only_id, J_move, J_blank}

SuppliedFields(tool_input) ==
    CASE tool_input = J_update  -> {"summary"}
      [] tool_input = J_only_id -> {}
      [] tool_input = J_move    -> {"start", "end"}
      [] tool_input = J_blank   -> {"location"}

SuppliedValue(tool_input, f) ==
    CASE tool_input = J_update /\ f = "summary"  -> "Review"
      [] tool_input = J_move /\ f = "start"      -> T11
      [] tool_input = J_move /\ f = "end"        -> T12
      [] tool_input = J_blank /\ f = "location"  -> "Room 2"

C30_UpdatePatchesSuppliedFields ==
    [][(/\ dispatched' # <<>>
        /\ exc' = None
        /\ LastCall'.func = "update_event_tool"
        /\ LastCall'.tool_input \in UpdateInputs) =>
           LET input == LastCall'.tool_input
               fields == SuppliedFields(input)
               served == LastCall'.outcome = "ok" /\ HasEvent(backend, "evt1")
           IN /\ LastCall'.outcome = "auth" => LastCall'.requests = <<>>
              /\ LastCall'.outcome # "auth" =>
                    /\ Len(LastCall'.requests) = 1
                    /\ LastCall'.requests[1].method = "patch"
                    /\ LastCall'.requests[1].eventId = "evt1"
                    /\ DOMAIN LastCall'.requests[1].body = fields
                    /\ \A f \in fields :
                          LastCall'.requests[1].body[f] = SuppliedValue(input, f)
              /\ ~served => backend' = backend
              /\ served =>
                    /\ backend'.issued = backend.issued
                    /\ Len(backend'.events) = Len(backend.events)
                    /\ \A i \in DOMAIN backend.events :
                          LET old == backend.events[i]
                              new == backend'.events[i]
                          IN IF old.id # "evt1" THEN new = old
                             ELSE /\ DOMAIN new = DOMAIN old
                                  /\ new.id = old.id
                                  /\ \A f \in DOMAIN old :
                                        new[f] = IF f \in fields
                                                 THEN SuppliedValue(input, f)
                                                 ELSE old[f]]_vars

\* an update whose summary is empty and whose location is Room 2 was served:
\* the patch held the location alone and the event kept its summary
C30_Witness ==
    /\ dispatched # <<>>
    /\ LastCall.func = "update_event_tool"
    /\ LastCall.tool_input = J_blank
    /\ LastCall.outcome = "ok"
    /\ Len(LastCall.requests) = 1
    /\ DOMAIN LastCall.requests[1].body = {"location"}
    /\ \E i \in DOMAIN backend.events :
          /\ backend.events[i].id = "evt1"
          /\ backend.events[i].location = "Room 2"
          /\ backend.events[i].summary # ""
          /\ backend.events[i].start = T10

====
